---- MODULE Spec2Model ----
(***************************************************************************)
(* A model of the animation mixing engine of src/Servo/Animation.py:       *)
(* AnimationPlayer (layer stack, weight redistribution, weight             *)
(* interpolation, the per-tick mix) and AnimationLayer (the playback       *)
(* cursor).                                                                *)
(*                                                                         *)
(* Layer weights are Python floats.  They are modelled as exact rationals  *)
(* <<numerator, denominator>> in lowest terms, so "equal within rounding"  *)
(* reads as "equal".  Wall-clock time is an integer number of clock units; *)
(* one frame period at the player's frame rate is SubFrame clock units.    *)
(***************************************************************************)
EXTENDS Integers, Sequences, FiniteSets, TLC

VARIABLES
    stack,                       \* AnimationPlayer.stack: sequence of layers
    weight,                      \* AnimationLayer.weight, per layer
    frames,                      \* current_animation.frames(), per layer
    current_frame,               \* AnimationLayer.current_frame
    is_playing,                  \* AnimationLayer._is_playing
    looping,                     \* AnimationLayer.looping
    transient,                   \* AnimationLayer.transient
    post_delay_frames,           \* AnimationLayer._post_delay_frames
    post_delay_count,            \* AnimationLayer._current_post_delay_frame_count
    blending_out,                \* AnimationLayer._blending_out
    blend_out_frame_duration,    \* AnimationLayer.blend_out_frame_duration
    interpolating,               \* AnimationPlayer._interpolating
    interpolation_layer,         \* AnimationPlayer._interpolation_layer
    interpolation_start_weight,  \* AnimationPlayer._interpolation_start_weight
    interpolation_end_weight,    \* AnimationPlayer._interpolation_end_weight
    interpolation_start_time,    \* AnimationPlayer._interpolation_start_time
    interpolation_end_time,      \* AnimationPlayer._interpolation_end_time
    now,                         \* datetime.now(), in clock units
    player_playing,              \* AnimationPlayer._is_playing
    next_frame_time,             \* AnimationPlayer._next_frame_time
    last_frame_time,             \* AnimationPlayer._last_frame_time
    stopped,                     \* AnimationPlayer.stopped
    anim_lock,                   \* AnimationPlayer.anim_lock: holder or NoThread
    pc,                          \* per thread: position in its current call
    local,                       \* per thread: the locals of its current call
    on_complete,                 \* AnimationLayer.on_complete, per layer
    on_start_blend_out,          \* AnimationLayer.on_start_blend_out, per layer
    animation_name,              \* AnimationLayer._animation_name, per layer
    written,                     \* values passed to rotate_servo, per servo
    playlist,                    \* AnimationPlayer._active_playlist
    playlist_active_idx,         \* AnimationPlayer._playlist_active_idx
    animation_mode,              \* AnimationPlayer._animation_mode
    live_ws,                     \* AnimationPlayer._live_ws
    framerate,                   \* AnimationPlayer.framerate, frames per second
    obs                          \* observer: what the last operation did

wvars == <<stack, weight>>
lvars == <<frames, current_frame, is_playing, looping, transient,
           post_delay_frames, post_delay_count, blending_out,
           blend_out_frame_duration>>
irec  == <<interpolating, interpolation_layer, interpolation_start_weight,
           interpolation_end_weight, interpolation_start_time,
           interpolation_end_time>>
ivars == <<irec, now>>
pvars == <<player_playing, next_frame_time, last_frame_time, stopped>>
tvars == <<anim_lock, pc, local>>
hvars == <<on_complete, on_start_blend_out, animation_name>>
mvars == <<animation_mode, live_ws, framerate>>
xvars == <<written, playlist, playlist_active_idx, mvars>>
vars  == <<wvars, lvars, ivars, pvars, tvars, hvars, xvars, obs>>

(***************************************************************************)
(* Exact rational arithmetic for the float weights.                        *)
(***************************************************************************)
Abs(x) == IF x < 0 THEN -x ELSE x

RECURSIVE GCD(_, _)
GCD(a, b) ==
  IF b = 0 THEN a ELSE CHOOSE g \in {GCD(y, x % y) : x \in {a}, y \in {b}} : TRUE

\* n/d in lowest terms with a positive denominator (d # 0).
Rat(n, d) ==
    LET g == GCD(Abs(n), Abs(d))
        s == IF d < 0 THEN -1 ELSE 1
    IN  <<(s * n) \div g, (s * d) \div g>>

Zero == <<0, 1>>
One  == <<1, 1>>
Half == <<1, 2>>

\* Each operation binds its operands once (x \in {a}), so that a nested
\* expression is evaluated once and not once per occurrence of the operand.
RAdd(a, b) ==
  CHOOSE r \in {Rat(x[1] * y[2] + y[1] * x[2], x[2] * y[2]) : x \in {a}, y \in {b}} : TRUE
RSub(a, b) ==
  CHOOSE r \in {Rat(x[1] * y[2] - y[1] * x[2], x[2] * y[2]) : x \in {a}, y \in {b}} : TRUE
RMul(a, b) ==
  CHOOSE r \in {Rat(x[1] * y[1], x[2] * y[2]) : x \in {a}, y \in {b}} : TRUE
RDiv(a, b) ==
  CHOOSE r \in {Rat(x[1] * y[2], x[2] * y[1]) : x \in {a}, y \in {b}} : TRUE
RLt(a, b)  == a[1] * b[2] < b[1] * a[2]
RLe(a, b)  == a[1] * b[2] <= b[1] * a[2]
RMin(a, b) ==
  CHOOSE r \in {IF RLt(y, x) THEN y ELSE x : x \in {a}, y \in {b}} : TRUE
RMax(a, b) ==
  CHOOSE r \in {IF RLt(x, y) THEN y ELSE x : x \in {a}, y \in {b}} : TRUE

RECURSIVE RSum(_, _)
\* np.sum(f[S]): the sum of f over the index set S.
RSum(f, S) ==
    IF S = {} THEN Zero
    ELSE LET i == CHOOSE x \in S : TRUE
         IN  RAdd(f[i], RSum(f, S \ {i}))

Range(s) == {s[i] : i \in 1..Len(s)}

\* list.index(x): position of the first occurrence (x occurs in s).
IndexOf(s, x) == CHOOSE i \in 1..Len(s) : s[i] = x /\ \A j \in 1..(i - 1) : s[j] # x

(***************************************************************************)
(* Bounds of the model and constants of the program.                       *)
(***************************************************************************)
LayerIds == {"A", "B", "C"}
LayerOrder == <<"A", "B", "C">>      \* the order in which layers get created
ClipFrames == {2}                    \* frame counts of the clips of created layers
NoLayer  == "none"
Threads  == {"t1", "t2"}
NoThread == "nobody"
Servos   == {"s1", "s2"}

MaxCalls  == 3        \* set_layer_weight calls in one run of the weight model
SubFrame  == 2        \* clock units in one frame period (1 / framerate)
Framerate == 1        \* AnimationPlayer.framerate as set by the control surface
InterpolationDuration == 1   \* AnimationPlayer._interpolation_duration, seconds

\* Weights a caller may pass (the control surface passes the request's float
\* unvalidated), below, inside and above [0, 1].
WeightInputs == {<<-1, 2>>, Zero, Half, One, <<3, 2>>}

(***************************************************************************)
(* AnimationPlayer.set_layer_weight                                        *)
(***************************************************************************)
\* max(min(x, 1.0), 0.0): the clamp of lines 223 and 260.
ClampIdentity(x) == x
Clamp(x) == RMax(RMin(x, One), Zero)

\* weights = np.array([anim.weight for anim in self.stack])
ReadWeights(stk, wt) == [i \in 1..Len(stk) |-> wt[stk[i]]]

\* Lines 231-255: weights[anim_idx] = weight, then the other entries are
\* scaled, shared equally or zeroed.  cw is the clamped requested weight.
RedistributeEqualOnly(weights, anim_idx, cw) ==
    LET other_indices == (DOMAIN weights) \ {anim_idx}
    IN  [i \in DOMAIN weights |->
            IF i = anim_idx THEN cw
            ELSE RDiv(RSub(One, cw), <<Cardinality(other_indices), 1>>)]
Redistribute(weights, anim_idx, cw) ==
    LET w1               == [weights EXCEPT ![anim_idx] = cw]
        remaining_weight == RSub(One, cw)
        other_indices    == (DOMAIN weights) \ {anim_idx}
        other_sum        == RSum(w1, other_indices)
    IN  IF RLt(Zero, remaining_weight) /\ other_indices # {}
        THEN IF RLt(Zero, other_sum)
             THEN LET scale == RDiv(remaining_weight, other_sum)
                  IN  [i \in DOMAIN w1 |->
                          IF i = anim_idx THEN w1[i] ELSE RMul(w1[i], scale)]
             ELSE LET equal_weight ==
                          RDiv(remaining_weight, <<Cardinality(other_indices), 1>>)
                  IN  [i \in DOMAIN w1 |->
                          IF i = anim_idx THEN w1[i] ELSE equal_weight]
        ELSE [i \in DOMAIN w1 |-> IF i = anim_idx THEN w1[i] ELSE Zero]

\* Lines 257-260: anim.weight = clamp(norm_weight) for every stack entry.
ApplyWeights(stk, wt, weights) ==
    [l \in DOMAIN wt |->
        IF l \in Range(stk) THEN Clamp(weights[IndexOf(stk, l)]) ELSE wt[l]]

\* A variant without the ValueError branch: a layer that is not in the
\* stack is taken for the first one.
set_layer_weight_anywhere(stk, wt, layer, w) ==
    IF stk = <<>> THEN wt
    ELSE ApplyWeights(stk, wt,
             Redistribute(ReadWeights(stk, wt),
                          IF layer \in Range(stk) THEN IndexOf(stk, layer) ELSE 1,
                          Clamp(w)))

\* The whole call run by a single caller: the new weight of every layer.
\* A layer that is not in the stack makes the call return without effect
\* (the ValueError branch of lines 226-229).
set_layer_weight(stk, wt, layer, w) ==
    IF layer \notin Range(stk) THEN wt
    ELSE ApplyWeights(stk, wt,
             Redistribute(ReadWeights(stk, wt), IndexOf(stk, layer), Clamp(w)))

(***************************************************************************)
(* The state right after AnimationPlayer.__init__ (lines 50-87), with no   *)
(* layer created yet.  Each specification below starts from it and says    *)
(* which part it drives.                                                   *)
(***************************************************************************)
WInit0 ==
    /\ stack = <<>>
    /\ weight = [l \in LayerIds |-> Zero]

LInit0 ==
    /\ frames = [l \in LayerIds |-> 0]
    /\ current_frame = [l \in LayerIds |-> 0]
    /\ is_playing = [l \in LayerIds |-> FALSE]
    /\ looping = [l \in LayerIds |-> FALSE]
    /\ transient = [l \in LayerIds |-> FALSE]
    /\ post_delay_frames = [l \in LayerIds |-> 0]
    /\ post_delay_count = [l \in LayerIds |-> 0]
    /\ blending_out = [l \in LayerIds |-> FALSE]
    /\ blend_out_frame_duration = [l \in LayerIds |-> 0]

IInit0 ==
    /\ interpolating = FALSE
    /\ interpolation_layer = NoLayer
    /\ interpolation_start_weight = Zero
    /\ interpolation_end_weight = One
    /\ interpolation_start_time = 0
    /\ interpolation_end_time = 0
    /\ now = 0

PInit0 ==
    /\ player_playing = FALSE
    /\ next_frame_time = 0
    /\ last_frame_time = 0
    /\ stopped = FALSE

TInit0 ==
    /\ anim_lock = NoThread
    /\ pc = [t \in Threads |-> "idle"]
    /\ local = [t \in Threads |-> <<>>]

\* The callbacks a layer is constructed with are "lambda: None" (line 381).
HInit0 ==
    /\ on_complete = [l \in LayerIds |-> "noop"]
    /\ on_start_blend_out = [l \in LayerIds |-> "noop"]
    /\ animation_name = [l \in LayerIds |-> "None"]

\* No servo registered (written is a function on the registered servos,
\* line 52), no playlist (lines 84-85).
\* The mode, the live flag and the frame rate of lines 64, 66 and 81; the
\* control surface's start-up leaves them so.
MInit0 ==
    /\ animation_mode = "transport"
    /\ live_ws = FALSE
    /\ framerate = Rat(Framerate, 1)

XInit0 ==
    /\ written = <<>>
    /\ playlist = <<>>
    /\ playlist_active_idx = 0
    /\ MInit0

(***************************************************************************)
(* AnimationPlayer.create_layer (with AnimationLayer.__init__ and          *)
(* add_layer): a new layer at the end of the stack, playing from frame 0.  *)
(* n is the frame count of its clip, tr the resolved transient flag.       *)
(***************************************************************************)
create_layer(l, n, w, loop, tr) ==
    /\ l \notin Range(stack)
    /\ stack' = Append(stack, l)
    /\ weight' = [weight EXCEPT ![l] = w]
    /\ frames' = [frames EXCEPT ![l] = n]
    /\ current_frame' = [current_frame EXCEPT ![l] = 0]
    /\ is_playing' = [is_playing EXCEPT ![l] = TRUE]
    /\ looping' = [looping EXCEPT ![l] = loop]
    /\ transient' = [transient EXCEPT ![l] = tr]
    /\ post_delay_frames' = [post_delay_frames EXCEPT ![l] = 0]
    /\ post_delay_count' = [post_delay_count EXCEPT ![l] = 0]
    /\ blending_out' = [blending_out EXCEPT ![l] = FALSE]
    /\ blend_out_frame_duration' =
           [blend_out_frame_duration EXCEPT ![l] = InterpolationDuration * Framerate]
    /\ on_complete' = [on_complete EXCEPT ![l] = "noop"]
    /\ on_start_blend_out' = [on_start_blend_out EXCEPT ![l] = "animate"]
    /\ animation_name' = [animation_name EXCEPT ![l] = l]

\* AnimationLayer.__init__ (lines 381-395) followed by add_layer (lines
\* 152-153): a layer built by the client itself, as in lines 562-563.  It
\* has the constructor's callbacks and blend-out length, and no
\* _animation_name.
BlendOutFrames == 60
add_layer(l, n, w, loop) ==
    /\ l \notin Range(stack)
    /\ stack' = Append(stack, l)
    /\ weight' = [weight EXCEPT ![l] = w]
    /\ frames' = [frames EXCEPT ![l] = n]
    /\ current_frame' = [current_frame EXCEPT ![l] = 0]
    /\ is_playing' = [is_playing EXCEPT ![l] = TRUE]
    /\ looping' = [looping EXCEPT ![l] = loop]
    /\ transient' = [transient EXCEPT ![l] = FALSE]
    /\ post_delay_frames' = [post_delay_frames EXCEPT ![l] = 0]
    /\ post_delay_count' = [post_delay_count EXCEPT ![l] = 0]
    /\ blending_out' = [blending_out EXCEPT ![l] = FALSE]
    /\ blend_out_frame_duration' = [blend_out_frame_duration EXCEPT ![l] = BlendOutFrames]
    /\ on_complete' = [on_complete EXCEPT ![l] = "noop"]
    /\ on_start_blend_out' = [on_start_blend_out EXCEPT ![l] = "noop"]
    /\ animation_name' = [animation_name EXCEPT ![l] = "None"]

\* Animation.name (line 505) of each layer's clip, as the list that
\* name.split('.json') gives: layers A and B play the clips "A.json" and
\* "B.json", layer C plays "A.json" too.
ClipNameParts(l) == IF l = "B" THEN <<"B", "">> ELSE <<"A", "">>

\* AnimationPlayer.get_layer_by_name (lines 183-192): the first layer of
\* the stack with that _animation_name, else the first whose clip's file
\* name starts with it, else None.
get_layer_by_name_unchecked(stk, layer_name) ==
    LET named  == SelectSeq(stk, LAMBDA l : animation_name[l] = layer_name)
        layers == SelectSeq(stk, LAMBDA l : ClipNameParts(l)[1] = layer_name)
    IN  IF Len(named) # 0 THEN named[1]
        ELSE IF Len(layers) # 0 THEN layers[1] ELSE "IndexError"
get_layer_by_name(stk, layer_name) ==
    LET named  == SelectSeq(stk, LAMBDA l : animation_name[l] = layer_name)
        layers == SelectSeq(stk, LAMBDA l : ClipNameParts(l)[1] = layer_name)
    IN  IF Len(named) # 0 THEN named[1]
        ELSE IF Len(layers) # 0 THEN layers[1] ELSE "None"

(***************************************************************************)
(* SpecWeights: one caller creating layers and calling set_layer_weight,   *)
(* no interpolation, no second thread.                                     *)
(***************************************************************************)
InitWeights ==
    /\ HInit0 /\ XInit0
    /\ WInit0 /\ LInit0 /\ IInit0 /\ PInit0 /\ TInit0
    /\ obs = [op |-> "init", layer |-> NoLayer, w |-> Zero,
              pre |-> [l \in LayerIds |-> Zero], calls |-> 0]

CreateLayer ==
    \E l \in LayerIds, w \in WeightInputs :
        /\ Len(stack) < Len(LayerOrder) /\ l = LayerOrder[Len(stack) + 1]
        /\ create_layer(l, CHOOSE n \in ClipFrames : TRUE, w, FALSE, FALSE)
        /\ obs' = [obs EXCEPT !.op = "create", !.layer = l, !.w = w, !.pre = weight]
        /\ UNCHANGED <<ivars, pvars, tvars>>
    /\ UNCHANGED xvars

SetLayerWeight ==
    \E l \in LayerIds, w \in WeightInputs :
        /\ obs.calls < MaxCalls
        /\ weight' = set_layer_weight(stack, weight, l, w)
        /\ obs' = [op |-> "set", layer |-> l, w |-> w, pre |-> weight,
                   calls |-> obs.calls + 1]
        /\ UNCHANGED <<stack, lvars, ivars, pvars, tvars>>
    /\ UNCHANGED <<hvars, xvars>>

NextWeights == CreateLayer \/ SetLayerWeight

SpecWeights == InitWeights /\ [][NextWeights]_vars

(***************************************************************************)
(* Claims about set_layer_weight, checked under SpecWeights.               *)
(***************************************************************************)
\* The statement's own clamp to [0, 1] and the sum of the stack's weights.
Unit01(x) == IF RLt(x, Zero) THEN Zero ELSE IF RLt(One, x) THEN One ELSE x
StackWeightSum == RSum(weight, Range(stack))
AfterSetOnMember == obs.op = "set" /\ obs.layer \in Range(stack)
OthersOf(l) == Range(stack) \ {l}

\* C1: after a set_layer_weight call on a member of a non-empty collection,
\* the weights of all layers of the collection sum to 1.
C1_WeightsSumToOne == AfterSetOnMember => StackWeightSum = One

\* C39: a structural change keeps the weight sum: after create_layer on a
\* collection that was empty or summed to 1, the weights of the collection
\* sum to 1.
C39_CreateKeepsWeightSum ==
    ( /\ obs.op = "create"
      /\ \/ OthersOf(obs.layer) = {}
         \/ RSum(obs.pre, OthersOf(obs.layer)) = One )
    => StackWeightSum = One

C3_WeightsInUnitRange ==
    AfterSetOnMember =>
        \A l \in Range(stack) : RLe(Zero, weight[l]) /\ RLe(weight[l], One)

\* A call with a request above 1 on a collection holding a negative weight.
C3_Witness ==
    /\ AfterSetOnMember
    /\ RLt(One, obs.w)
    /\ \E o \in OthersOf(obs.layer) : RLt(obs.pre[o], Zero)

(***************************************************************************)
(* AnimationLayer: play, pause, resume, stop and update.                   *)
(***************************************************************************)
MaxDelta == 5         \* longest tick delta, in clock units
MaxFrames == 3        \* longest clip, in frames
MaxPostDelay == 2     \* largest post_delay_frames

\* Clock units in one second: at the frame rate Framerate a frame period
\* is SubFrame clock units.
UnitsPerSecond == Framerate * SubFrame

\* math.floor(delta.total_seconds() * framerate), line 462, at the
\* player's current frame rate (line 295), a rational frames per second.
DeltaFrames(d) == (d * framerate[1]) \div (framerate[2] * UnitsPerSecond)

\* n / d rounded to the nearest integer, halves to the even one, as
\* timedelta rounds a float number of seconds to its resolution.
RoundHalfEven(n, d) ==
    LET q == n \div d
        r == n % d
    IN  IF 2 * r < d THEN q
        ELSE IF 2 * r > d THEN q + 1
        ELSE IF q % 2 = 0 THEN q ELSE q + 1

\* timedelta(seconds = 1.0 / self.framerate), line 274, in clock units
\* (the clock unit stands for timedelta's resolution).
FramePeriod(rate) == RoundHalfEven(UnitsPerSecond * rate[2], rate[1])

\* Lines 489-493: after on_complete a looping layer keeps playing from
\* frame 0, any other layer is stopped.  The value is _is_playing.
PlayingAfterCompleteAlways(loop) == TRUE
PlayingAfterComplete(loop) == loop

\* Line 464: the frame index update stores is one of the clip's.
WithinClipInclusive(next_frame, n) == next_frame <= n
WithinClip(next_frame, n) == next_frame < n

\* Line 470: the edge on which on_start_blend_out is invoked.
StartsBlendOutLooping(l, frame) ==
    /\ frame >= frames[l] - blend_out_frame_duration[l]
    /\ ~blending_out[l]
StartsBlendOut(l, frame) ==
    /\ frame >= frames[l] - blend_out_frame_duration[l]
    /\ ~looping[l]
    /\ ~blending_out[l]

\* AnimationLayer.update (lines 458-495) for a layer with a clip: the
\* layer's fields after the call, and which callbacks the call invoked.
LayerUpdate(l, d) ==
    LET next_frame == current_frame[l] + DeltaFrames(d)
        count      == post_delay_count[l] + 1
        same       == [current_frame |-> current_frame[l],
                       is_playing |-> is_playing[l],
                       post_delay_count |-> post_delay_count[l],
                       blending_out |-> blending_out[l],
                       advanced |-> FALSE,
                       fired_blend_out |-> FALSE,
                       fired_complete |-> FALSE]
    IN  IF ~is_playing[l] THEN same
        ELSE IF WithinClip(next_frame, frames[l])
        THEN [same EXCEPT !.current_frame = next_frame,
                          !.advanced = TRUE,
                          !.blending_out = blending_out[l] \/ StartsBlendOut(l, next_frame),
                          !.fired_blend_out = StartsBlendOut(l, next_frame)]
        ELSE IF count >= post_delay_frames[l]
        THEN [same EXCEPT !.post_delay_count = 0,
                          !.fired_complete = TRUE,
                          !.current_frame = IF looping[l] THEN 0 ELSE current_frame[l],
                          !.is_playing = PlayingAfterComplete(looping[l]),
                          !.blending_out = FALSE]
        ELSE [same EXCEPT !.post_delay_count = count]

\* The layer fields of l become those of the update result r.
ApplyLayerUpdate(l, r) ==
    /\ current_frame' = [current_frame EXCEPT ![l] = r.current_frame]
    /\ is_playing' = [is_playing EXCEPT ![l] = r.is_playing]
    /\ post_delay_count' = [post_delay_count EXCEPT ![l] = r.post_delay_count]
    /\ blending_out' = [blending_out EXCEPT ![l] = r.blending_out]
    /\ UNCHANGED <<frames, looping, transient, post_delay_frames>>

\* AnimationLayer.play (lines 400-405); loop is "None", "True" or "False".
layer_play(l, loop, from_frame) ==
    /\ current_frame' = [current_frame EXCEPT ![l] = from_frame]
    /\ is_playing' = [is_playing EXCEPT ![l] = TRUE]
    /\ looping' = [looping EXCEPT ![l] = IF loop = "None" THEN looping[l] ELSE loop = "True"]
    /\ UNCHANGED <<frames, transient, post_delay_frames, post_delay_count,
                   blending_out, blend_out_frame_duration>>

\* AnimationLayer.pause and AnimationLayer.stop (lines 407-408, 413-414)
\* clear _is_playing, AnimationLayer.resume (410-411) sets it.
layer_set_playing_rewind(l, b) ==
    /\ is_playing' = [is_playing EXCEPT ![l] = b]
    /\ current_frame' = [current_frame EXCEPT ![l] = 0]
    /\ UNCHANGED <<frames, looping, transient, post_delay_frames,
                   post_delay_count, blending_out, blend_out_frame_duration>>
layer_set_playing(l, b) ==
    /\ is_playing' = [is_playing EXCEPT ![l] = b]
    /\ UNCHANGED <<frames, current_frame, looping, transient, post_delay_frames,
                   post_delay_count, blending_out, blend_out_frame_duration>>

(***************************************************************************)
(* SpecLayer: one AnimationLayer "A" with the default (no-op) callbacks,   *)
(* added to a player's stack and driven by update, play, pause, resume and *)
(* stop, and by the player's stop().  A play cycle starts at construction, *)
(* at play(), and at a resume() of a layer that had run to completion; obs *)
(* counts the callbacks of the current cycle and says what the last tick   *)
(* invoked.                                                                *)
(***************************************************************************)
NewCycle(from_frame) ==
    [op |-> "play", complete_fired |-> 0, blend_fired |-> 0, elapsed |-> 0,
     from_zero |-> (from_frame = 0), only_ticks |-> TRUE, reached |-> FALSE,
     completed |-> FALSE, ticked_stopped |-> FALSE,
     last_complete |-> FALSE, last_blend_out |-> FALSE]

Cap(n, m) == IF n > m THEN m ELSE n

\* The observer after an operation other than a tick: the cycle is no
\* longer one of ticks only, and its elapsed time is no longer followed.
Interrupted(op) ==
    [obs EXCEPT !.op = op, !.only_ticks = FALSE, !.elapsed = 0,
                !.last_complete = FALSE, !.last_blend_out = FALSE]

InitLayer ==
    /\ HInit0 /\ XInit0
    /\ stack = <<"A">> /\ weight = [l \in LayerIds |-> IF l = "A" THEN One ELSE Zero]
    /\ IInit0 /\ PInit0 /\ TInit0
    /\ \E n \in 1..MaxFrames, t \in 0..MaxFrames, pd \in 0..MaxPostDelay,
          loop \in BOOLEAN :
           /\ frames = [l \in LayerIds |-> IF l = "A" THEN n ELSE 0]
           /\ blend_out_frame_duration = [l \in LayerIds |-> IF l = "A" THEN t ELSE 0]
           /\ post_delay_frames = [l \in LayerIds |-> IF l = "A" THEN pd ELSE 0]
           /\ looping = [l \in LayerIds |-> l = "A" /\ loop]
    /\ current_frame = [l \in LayerIds |-> 0]
    /\ is_playing = [l \in LayerIds |-> l = "A"]
    /\ transient = [l \in LayerIds |-> FALSE]
    /\ post_delay_count = [l \in LayerIds |-> 0]
    /\ blending_out = [l \in LayerIds |-> FALSE]
    /\ obs = NewCycle(0)

LayerTick ==
    \E d \in 0..MaxDelta :
        LET r == LayerUpdate("A", d) IN
        /\ ApplyLayerUpdate("A", r)
        /\ UNCHANGED blend_out_frame_duration
        /\ obs' = [obs EXCEPT
                     !.op = "tick",
                     !.complete_fired = Cap(@ + (IF r.fired_complete THEN 1 ELSE 0), 2),
                     !.blend_fired = Cap(@ + (IF r.fired_blend_out THEN 1 ELSE 0), 2),
                     !.elapsed = IF obs.only_ticks /\ obs.from_zero
                                 THEN Cap(@ + d, frames["A"] * SubFrame) ELSE 0,
                     !.reached = @ \/
                         (r.advanced /\ r.current_frame >=
                                           frames["A"] - blend_out_frame_duration["A"]),
                     !.completed = @ \/ (r.fired_complete /\ ~r.is_playing),
                     !.ticked_stopped = @ \/ ~is_playing["A"],
                     !.last_complete = r.fired_complete,
                     !.last_blend_out = r.fired_blend_out]
        /\ UNCHANGED <<wvars, ivars, pvars, tvars>>
    /\ UNCHANGED <<hvars, xvars>>

LayerPlay ==
    \E loop \in {"None", "True", "False"}, from_frame \in 0..1 :
        /\ from_frame < frames["A"]
        /\ layer_play("A", loop, from_frame)
        /\ obs' = NewCycle(from_frame)
        /\ UNCHANGED <<wvars, ivars, pvars, tvars>>
    /\ UNCHANGED <<hvars, xvars>>

LayerPause ==
    /\ layer_set_playing("A", FALSE)
    /\ obs' = Interrupted("pause")
    /\ UNCHANGED <<wvars, ivars, pvars, tvars>>
    /\ UNCHANGED <<hvars, xvars>>

LayerStop ==
    /\ layer_set_playing("A", FALSE)
    /\ obs' = Interrupted("stop")
    /\ UNCHANGED <<wvars, ivars, pvars, tvars>>
    /\ UNCHANGED <<hvars, xvars>>

LayerResume ==
    /\ layer_set_playing("A", TRUE)
    /\ obs' = IF obs.completed
              THEN [NewCycle(current_frame["A"]) EXCEPT !.op = "resume",
                                                        !.only_ticks = FALSE]
              ELSE Interrupted("resume")
    /\ UNCHANGED <<wvars, ivars, pvars, tvars>>
    /\ UNCHANGED <<hvars, xvars>>

\* AnimationPlayer.stop (lines 331-341) of the player that holds the layer,
\* with pause (lines 345-347): no servo is registered here, every layer
\* of the stack is rewound to frame 0.
LayerPlayerStop ==
    /\ player_playing' = FALSE
    /\ next_frame_time' = now
    /\ stopped' = TRUE
    /\ current_frame' = [l \in LayerIds |-> IF l \in Range(stack) THEN 0 ELSE current_frame[l]]
    /\ obs' = Interrupted("player_stop")
    /\ UNCHANGED <<wvars, frames, is_playing, looping, transient, post_delay_frames,
                   post_delay_count, blending_out, blend_out_frame_duration,
                   ivars, last_frame_time, tvars, hvars, xvars>>

NextLayer ==
    \/ LayerTick \/ LayerPlay \/ LayerPause \/ LayerStop \/ LayerResume
    \/ LayerPlayerStop

SpecLayer == InitLayer /\ [][NextLayer]_vars

(***************************************************************************)
(* Claims about AnimationLayer.update, checked under SpecLayer.            *)
(***************************************************************************)
\* C6: in a play cycle of a non-looping layer on_complete fires at most
\* once, exactly once when the layer has run to completion, and not again
\* on the ticks that follow while the layer stays stopped.
C6_OnCompleteOncePerCycle ==
    ~looping["A"] =>
        /\ obs.complete_fired <= 1
        /\ obs.completed <=> obs.complete_fired = 1
        /\ obs.completed => ~is_playing["A"]

\* A non-looping layer that held its post-delay for MaxPostDelay ticks,
\* completed, and was ticked again while stopped.
C6_Witness ==
    /\ ~looping["A"]
    /\ post_delay_frames["A"] = MaxPostDelay
    /\ obs.completed /\ obs.ticked_stopped /\ obs.op = "tick"
    /\ obs.complete_fired = 1

\* C7: a non-looping layer played from frame 0 with no post-delay and fed
\* only ticks whose deltas sum to at least frames / framerate is at frame
\* frames - 1, has fired on_complete once and is stopped.
C7_StopsOnLastFrame ==
    ( /\ obs.only_ticks /\ obs.from_zero
      /\ ~looping["A"]
      /\ post_delay_frames["A"] = 0
      /\ obs.elapsed >= frames["A"] * SubFrame )
    => ( /\ current_frame["A"] = frames["A"] - 1
         /\ obs.complete_fired = 1
         /\ ~is_playing["A"] )

\* C8: in a play cycle of a non-looping layer on_start_blend_out fires at
\* most once, and has fired once a tick of the cycle has brought
\* current_frame to frames - blend_out_frame_duration or beyond, in every
\* cycle that play() starts.
C8_BlendOutOncePerCycle ==
    ~looping["A"] =>
        /\ obs.blend_fired <= 1
        /\ obs.reached => obs.blend_fired = 1

\* C22: AnimationLayer.stop, from any state of the layer (playing, paused,
\* stopped, constructed and never ticked), leaves the layer not playing
\* and every other field as it was; a second stop changes nothing more.
C22_StopIdempotentTotal ==
    [][obs'.op = "stop" =>
          /\ ~is_playing'["A"]
          /\ UNCHANGED <<frames, current_frame, looping, transient,
                         post_delay_frames, post_delay_count, blending_out,
                         blend_out_frame_duration, wvars, hvars>>]_vars

\* stop() on a layer that is part-way through its clip and blending out.
C22_Witness ==
    /\ obs.op = "stop"
    /\ ~is_playing["A"]
    /\ current_frame["A"] > 0
    /\ blending_out["A"]

C25_HoldsLastPoseDuringPostDelay ==
    /\ (is_playing["A"] /\ post_delay_count["A"] > 0) =>
           /\ current_frame["A"] = frames["A"] - 1
           /\ post_delay_count["A"] < post_delay_frames["A"]
    /\ (obs.op = "tick" /\ obs.last_complete) => post_delay_count["A"] = 0

\* C26: the frame index of a playing layer is one of its clip's frames.
C26_FrameIndexInRange ==
    is_playing["A"] =>
        /\ 0 <= current_frame["A"]
        /\ current_frame["A"] < frames["A"]

\* A tick has brought a playing layer to the last frame of the longest
\* clip, after the player that holds it was stopped.
C26_Witness ==
    /\ obs.op = "tick"
    /\ stopped
    /\ is_playing["A"]
    /\ frames["A"] = MaxFrames
    /\ current_frame["A"] = frames["A"] - 1

\* C27: the tick in which the post-delay expires leaves a looping layer
\* playing at frame 0 and any other layer stopped, neither blending out;
\* no tick of a looping layer invokes on_start_blend_out.
C27_PostDelayExpiry ==
    /\ (obs.op = "tick" /\ obs.last_complete) =>
           /\ ~blending_out["A"]
           /\ post_delay_count["A"] = 0
           /\ IF looping["A"]
              THEN is_playing["A"] /\ current_frame["A"] = 0
              ELSE ~is_playing["A"]
    /\ (obs.op = "tick" /\ looping["A"]) => ~obs.last_blend_out

\* A looping layer completes a cycle after holding the longest post-delay.
C27_Witness ==
    /\ obs.op = "tick" /\ obs.last_complete
    /\ looping["A"]
    /\ post_delay_frames["A"] = MaxPostDelay
    /\ obs.complete_fired = 2

(***************************************************************************)
(* AnimationPlayer: animate_layer_weight and the tick loop (update).       *)
(***************************************************************************)
MaxTime == 6            \* the clock stops advancing here
MaxAnimateCalls == 1    \* animate_layer_weight calls made by the control surface
PlayerLayerOrder == <<"A", "B">>        \* the layers of the player model

\* timedelta(seconds = dur) in clock units.
Seconds(dur) == dur * Framerate * SubFrame

\* map_range (lines 14-15).
map_range_swapped(value, start1, stop1, start2, stop2) ==
    RAdd(RMul(RDiv(RSub(value, start1), RSub(stop1, start1)), RSub(start2, stop2)),
         stop2)
map_range(value, start1, stop1, start2, stop2) ==
    RAdd(RMul(RDiv(RSub(value, start1), RSub(stop1, start1)), RSub(stop2, start2)),
         start2)

\* AnimationPlayer.animate_layer_weight (lines 210-220) on a layer handle,
\* called at clock time now; dur is in seconds.
animate_layer_weight_keep(layer, w, dur) ==
    /\ interpolating' = TRUE
    /\ interpolation_start_time' = IF interpolating THEN interpolation_start_time ELSE now
    /\ interpolation_end_time' =
           IF interpolating THEN interpolation_end_time ELSE now + Seconds(dur)
    /\ interpolation_start_weight' =
           IF interpolating THEN interpolation_start_weight ELSE weight[layer]
    /\ interpolation_end_weight' = IF interpolating THEN interpolation_end_weight ELSE w
    /\ interpolation_layer' = IF interpolating THEN interpolation_layer ELSE layer
    /\ blend_out_frame_duration' =
           [blend_out_frame_duration EXCEPT ![layer] = dur * Framerate]
animate_layer_weight(layer, w, dur) ==
    /\ interpolating' = TRUE
    /\ interpolation_start_time' = now
    /\ interpolation_end_time' = now + Seconds(dur)
    /\ interpolation_start_weight' = weight[layer]
    /\ interpolation_end_weight' = w
    /\ interpolation_layer' = layer
    /\ blend_out_frame_duration' =
           [blend_out_frame_duration EXCEPT ![layer] = dur * Framerate]

\* animate_layer_weight for a duration given in half seconds (the playlist
\* sequencer's 1.5 s, line 146).  blend_out_frame_duration is only ever
\* compared with whole frame numbers (line 470), for which the float
\* duration * framerate and its floor give the same result.
animate_layer_weight_halves(layer, w, halves) ==
    /\ interpolating' = TRUE
    /\ interpolation_start_time' = now
    /\ interpolation_end_time' = now + (halves * Framerate * SubFrame) \div 2
    /\ interpolation_start_weight' = weight[layer]
    /\ interpolation_end_weight' = w
    /\ interpolation_layer' = layer
    /\ blend_out_frame_duration' =
           [blend_out_frame_duration EXCEPT ![layer] = (halves * Framerate) \div 2]

\* Line 281: the interpolation has run its time.
InterpolationDone(current_time, end_time) == current_time >= end_time

\* Lines 287-290: the weight of the running interpolation at current_time.
InterpolatedWeight(current_time) ==
    LET duration == interpolation_end_time - interpolation_start_time
        lerp_amt == Rat(current_time - interpolation_start_time, duration)
    IN  map_range(lerp_amt, Zero, One,
                  interpolation_start_weight, interpolation_end_weight)

\* AnimationLayer.is_completed (lines 429-451), on the fields r of a layer.
is_completed(l, r) ==
    /\ ~r.is_playing
    /\ r.current_frame + 1 >= frames[l]
    /\ r.post_delay_count >= post_delay_frames[l]

(***************************************************************************)
(* SpecPlayer: the tick thread running AnimationPlayer.update, and the     *)
(* control surface creating layers, starting weight interpolations and     *)
(* calling play(), while the clock advances.  One pass of the loop is the  *)
(* steps top -> interp -> layers (one per layer, then the mix) -> top.     *)
(***************************************************************************)
PlayerWeightInputs == {One, <<3, 2>>}
PlayerCreateWeights == {Zero, One}
DurationInputs == {0, 1, 2}          \* seconds

InitPlayer ==
    /\ HInit0 /\ XInit0
    /\ WInit0 /\ LInit0 /\ IInit0 /\ PInit0
    /\ anim_lock = NoThread
    /\ pc = [t \in {"tick"} |-> "top"]
    /\ local = [t \in {"tick"} |-> [frame_delta |-> 0, list |-> <<>>, i |-> 0]]
    /\ obs = [op |-> "init", active |-> FALSE, layer |-> NoLayer,
              animate_calls |-> 0, req |-> <<>>, completed |-> {},
              hook |-> <<>>, played |-> NoLayer]

\* The observer after an operation: which it was, and whether an
\* interpolation was active, and on which layer, when the operation began;
\* req holds the arguments of an animate_layer_weight call the operation
\* made, completed the layers whose on_complete the current pass invoked,
\* hook the callback the operation invoked and the layer that invoked it,
\* played the layer the playlist sequencer called play() on.
Observe(op) ==
    [obs EXCEPT !.op = op, !.active = interpolating, !.layer = interpolation_layer,
                !.req = <<>>, !.hook = <<>>, !.played = NoLayer]

\* The clock unit is half a frame period or longer; a pass of the loop is
\* taken to run within one clock unit, so time advances between passes.
AdvanceClock ==
    /\ now < MaxTime
    /\ pc["tick"] = "top"
    /\ now' = now + 1
    /\ obs' = Observe("clock")
    /\ UNCHANGED <<wvars, lvars, irec, pvars, tvars>>
    /\ UNCHANGED <<hvars, xvars>>

PlayerCreateLayer ==
    \E l \in LayerIds, n \in ClipFrames, w \in PlayerCreateWeights,
       loop \in BOOLEAN :
        /\ ~player_playing /\ now = 0          \* set-up, before play()
        /\ Len(stack) < Len(PlayerLayerOrder)
        /\ l = PlayerLayerOrder[Len(stack) + 1]
        /\ create_layer(l, n, w, loop, ~loop)
        /\ obs' = Observe("create")
        /\ UNCHANGED <<ivars, pvars, tvars>>
    /\ UNCHANGED xvars

PlayerAnimate ==
    \E l \in LayerIds, w \in PlayerWeightInputs, dur \in DurationInputs :
        /\ obs.animate_calls < MaxAnimateCalls
        /\ frames[l] # 0                       \* a layer that was created
        /\ animate_layer_weight(l, w, dur)
        /\ obs' = [Observe("animate") EXCEPT !.animate_calls = @ + 1,
                                              !.req = <<l, w, dur>>]
        /\ UNCHANGED <<wvars, frames, current_frame, is_playing, looping,
                       transient, post_delay_frames, post_delay_count,
                       blending_out, now, pvars, tvars>>
    /\ UNCHANGED <<hvars, xvars>>

\* AnimationPlayer.play (lines 349-350).
PlayerPlay ==
    /\ ~player_playing
    /\ player_playing' = TRUE
    /\ obs' = Observe("play")
    /\ UNCHANGED <<wvars, lvars, ivars, next_frame_time, last_frame_time,
                   stopped, tvars>>
    /\ UNCHANGED <<hvars, xvars>>

\* Lines 265-276: the head of one pass of the loop that runs a frame: the
\* stack is not empty, the player is playing and the frame is due.
TickTop ==
    /\ pc["tick"] = "top"
    /\ Len(stack) # 0 /\ player_playing /\ now >= next_frame_time
    /\ next_frame_time' = now + FramePeriod(framerate)
    /\ last_frame_time' = now
    /\ local' = [local EXCEPT !["tick"] =
                    [frame_delta |-> now - last_frame_time, list |-> <<>>, i |-> 0]]
    /\ pc' = [pc EXCEPT !["tick"] = "interp"]
    /\ written' = [s \in DOMAIN written |-> <<>>]
    /\ obs' = [Observe("tick_top") EXCEPT !.completed = {}]
    /\ UNCHANGED <<wvars, lvars, ivars, player_playing, stopped, anim_lock>>
    /\ UNCHANGED <<hvars, playlist, playlist_active_idx, mvars>>

\* Lines 278-291: the interpolation step of the pass.
TickInterpolate ==
    /\ pc["tick"] = "interp"
    /\ pc' = [pc EXCEPT !["tick"] = "layers"]
    /\ IF ~interpolating
       THEN /\ UNCHANGED <<weight, irec>>
            /\ obs' = Observe("tick_interpolate")
       ELSE IF InterpolationDone(now, interpolation_end_time)
       THEN /\ weight' = set_layer_weight(stack, weight, interpolation_layer,
                                          interpolation_end_weight)
            /\ interpolation_layer' = NoLayer
            /\ interpolating' = FALSE
            /\ UNCHANGED <<interpolation_start_weight, interpolation_end_weight,
                           interpolation_start_time, interpolation_end_time>>
            /\ obs' = Observe("tick_interpolate")
       ELSE /\ weight' = set_layer_weight(stack, weight, interpolation_layer,
                                          InterpolatedWeight(now))
            /\ UNCHANGED irec
            /\ obs' = Observe("tick_interpolate")
    /\ UNCHANGED <<stack, lvars, now, pvars, anim_lock, local>>
    /\ UNCHANGED <<hvars, xvars>>

\* The snapshot list(self.stack) of line 294: taken when the loop starts.
TickList == IF local["tick"].i = 0 THEN stack ELSE local["tick"].list

\* AnimationPlayer.remove_layer (lines 155-158) on a layer of the stack;
\* list.remove raises ValueError for a layer that is not in it.
remove_layer(stk, l) == SelectSeq(stk, LAMBDA x : x # l)

\* The callback one call of AnimationLayer.update invokes: the layer's
\* on_start_blend_out (line 472), its on_complete unless that is None
\* (lines 486-487), or nothing ("noop", which is also "lambda: None").
InvokedHook(l, r) ==
    IF r.fired_blend_out THEN on_start_blend_out[l]
    ELSE IF r.fired_complete /\ on_complete[l] # "None" THEN on_complete[l]
    ELSE "noop"

\* The layer's fields when the callback raises: update ends at the call.
\* on_start_blend_out is the last statement of its branch; a raising
\* on_complete (line 487) leaves lines 489-495 undone, so only the reset
\* of the post-delay counter (line 482) has happened.
RaisedLayerUpdate(l, r) ==
    IF r.fired_complete
    THEN [r EXCEPT !.current_frame = current_frame[l],
                   !.is_playing = is_playing[l],
                   !.blending_out = blending_out[l]]
    ELSE r

\* One iteration of the loop of lines 293-300 for a layer whose callback,
\* if any, is not the playlist sequencer's: the layer's update with the
\* callback it invokes (on_start_blend_out as create_layer sets it, line
\* 170, is "animate"), then the removal of a completed transient layer.
\* Nothing in the loop catches an exception: a raising callback, or the
\* ValueError of removing a layer that its own callback already removed,
\* ends the thread ("crashed").
TickLayerPlain(anim, r, hook) ==
    LET raised == hook = "raise"
        r1     == IF raised THEN RaisedLayerUpdate(anim, r) ELSE r
        stack1 == IF hook = "remove_self" THEN remove_layer(stack, anim) ELSE stack
        check  == ~raised /\ transient[anim] /\ is_completed(anim, r1)
        value_error == check /\ anim \notin Range(stack1)
    IN  /\ ApplyLayerUpdate(anim, r1)
        /\ IF hook = "animate"
           THEN animate_layer_weight(anim, Zero, InterpolationDuration)
           ELSE UNCHANGED <<irec, blend_out_frame_duration>>
        /\ stack' = IF check /\ ~value_error
                    THEN remove_layer(stack1, anim) ELSE stack1
        /\ pc' = IF raised \/ value_error
                 THEN [pc EXCEPT !["tick"] = "crashed"] ELSE pc
        /\ obs' = [Observe("tick_layer") EXCEPT
                      !.req = IF hook = "animate"
                              THEN <<anim, Zero, InterpolationDuration>> ELSE <<>>,
                      !.completed = IF r.fired_complete /\ on_complete[anim] # "None"
                                    THEN @ \cup {anim} ELSE @,
                      !.hook = IF r.fired_blend_out \/ r.fired_complete
                               THEN <<hook, anim>> ELSE <<>>]
        /\ UNCHANGED <<hvars, playlist_active_idx>>

\* The iteration for a layer that completes with the playlist sequencer
\* as on_complete: AnimationPlayer.increment_playlist_animation (lines
\* 125-150) runs inside the layer's update (line 487), then update goes on
\* with lines 489-495 for the layer itself, then the transient check.
\* get_layer_by_name (lines 183-192) finds a layer only in the stack; a
\* missing current layer (or no playlist) raises at line 130.
TickLayerPlaylist(anim, r) ==
    LET n        == Len(playlist)
        cur      == IF n = 0 THEN "None"
                    ELSE get_layer_by_name(stack, playlist[playlist_active_idx + 1].name)
        next_idx == IF n = 0 THEN 0 ELSE (playlist_active_idx + 1) % n
        nxt      == IF n = 0 THEN "None"
                    ELSE get_layer_by_name(stack, playlist[next_idx + 1].name)
        raised   == cur = "None"
        found    == nxt # "None"
        oc1      == [on_complete EXCEPT ![cur] = "None"]
        cf1      == IF found THEN [current_frame EXCEPT ![nxt] = 0] ELSE current_frame
        ip1      == IF found THEN [is_playing EXCEPT ![nxt] = TRUE] ELSE is_playing
        pdf1     == IF found
                    THEN [post_delay_frames EXCEPT ![nxt] = playlist[next_idx + 1].post_delay]
                    ELSE post_delay_frames
        cf2      == IF looping[anim] THEN [cf1 EXCEPT ![anim] = 0] ELSE cf1
        ip2      == [ip1 EXCEPT ![anim] = IF PlayingAfterComplete(looping[anim])
                                          THEN ip1[anim] ELSE FALSE]
        completed == /\ ~ip2[anim]
                     /\ cf2[anim] + 1 >= frames[anim]
                     /\ r.post_delay_count >= pdf1[anim]
    IN  IF raised
        THEN /\ ApplyLayerUpdate(anim, RaisedLayerUpdate(anim, r))
             /\ pc' = [pc EXCEPT !["tick"] = "crashed"]
             /\ obs' = [Observe("tick_layer") EXCEPT
                           !.hook = <<"increment_playlist", anim>>]
             /\ UNCHANGED <<stack, irec, blend_out_frame_duration, hvars,
                            playlist_active_idx>>
        ELSE /\ on_complete' = IF found
                               THEN [oc1 EXCEPT ![nxt] = "increment_playlist"] ELSE oc1
             /\ post_delay_frames' = pdf1
             /\ IF found
                THEN animate_layer_weight_halves(nxt, One, 3)
                ELSE UNCHANGED <<irec, blend_out_frame_duration>>
             /\ playlist_active_idx' = next_idx
             /\ current_frame' = cf2
             /\ is_playing' = ip2
             /\ post_delay_count' = [post_delay_count EXCEPT ![anim] = r.post_delay_count]
             /\ blending_out' = [blending_out EXCEPT ![anim] = r.blending_out]
             /\ stack' = IF transient[anim] /\ completed
                         THEN remove_layer(stack, anim) ELSE stack
             /\ obs' = [Observe("tick_layer") EXCEPT
                           !.completed = @ \cup {anim},
                           !.hook = <<"increment_playlist", anim>>,
                           !.played = IF found THEN nxt ELSE NoLayer]
             /\ UNCHANGED <<frames, looping, transient, on_start_blend_out,
                            animation_name, pc>>

\* Lines 293-300: one iteration of the loop over list(self.stack).
TickLayers ==
    /\ pc["tick"] = "layers"
    /\ local["tick"].i < Len(TickList)
    /\ LET anim == TickList[local["tick"].i + 1]
           r    == LayerUpdate(anim, local["tick"].frame_delta)
           hook == InvokedHook(anim, r)
       IN  /\ IF hook = "increment_playlist"
              THEN TickLayerPlaylist(anim, r)
              ELSE TickLayerPlain(anim, r, hook)
           /\ local' = [local EXCEPT !["tick"].list = TickList, !["tick"].i = @ + 1]
    /\ UNCHANGED <<weight, now, pvars, anim_lock, written, playlist, mvars>>

\* Animation.servo_pos_at_frame (lines 516-517): the clip data, here one
\* fixed table of angles per layer, servo and frame.
ClipPosition(l, s, f) ==
    (IF l = "A" THEN 10 ELSE IF l = "B" THEN 40 ELSE 70)
        + (IF s = "s1" THEN 0 ELSE IF s = "s4" THEN 100 ELSE 5) + f

\* Lines 304-313: weighted_layer_sum for servo s over the stack.
WeightedLayerSumNormalized(s) ==
    LET term  == [l \in LayerIds |->
                     RMul(<<ClipPosition(l, s, current_frame[l]), 1>>, weight[l])]
        total == RSum(weight, Range(stack))
    IN  IF RLt(Zero, total) THEN RDiv(RSum(term, Range(stack)), total)
        ELSE RSum(term, Range(stack))
WeightedLayerSum(s) ==
    LET term == [l \in LayerIds |->
                    RMul(<<ClipPosition(l, s, current_frame[l]), 1>>, weight[l])]
    IN  RSum(term, Range(stack))

\* The value None that stop passes to rotate_servo (line 336).
NoAngle == <<0, 0>>

\* The servos a client can register with add_servo (lines 355-364), in
\* the order it registers them, which is the order self.servos is iterated
\* in.  s3 is registered with a remap_fn that raises ValueError for a
\* value outside its calibration range 0..CalibrationMax; the others get
\* the identity (line 361).
ServoOrder == <<"s1", "s2", "s3", "s4">>
RegisteredServos == SelectSeq(ServoOrder, LAMBDA s : s \in DOMAIN written)
CalibrationMax == 50
RemapRaises(s, value) ==
    s = "s3" /\ (RLt(value, Zero) \/ RLt(<<CalibrationMax, 1>>, value))
Remap(s, value) == value

\* Line 375: the servo's angle setter raises ValueError for an angle
\* outside 0..ActuationRange.
ActuationRange == 180
SetterRaises(s, angle) ==
    RLt(angle, Zero) \/ RLt(<<ActuationRange, 1>>, angle)

\* AnimationPlayer.rotate_servo (lines 366-377) for a registered servo:
\* what became of the call.  A ValueError of the setter is caught at line
\* 376.  A ValueError of the remap function is caught there as well, but
\* the handler's message (line 377) reads angle, which the failed
\* assignment of line 374 never bound: the handler itself raises
\* UnboundLocalError, which nothing catches.
rotate_servo(s, value) ==
    IF value = NoAngle THEN "written"
    ELSE IF RemapRaises(s, value) THEN "UnboundLocalError"
    ELSE IF SetterRaises(s, Remap(s, value)) THEN "ignored"
    ELSE "written"

\* Lines 318-319: the loop over the servos ends at the first call that
\* raises; servo s is reached when no servo before it raised.
WriteRaises == {s \in DOMAIN written : rotate_servo(s, WeightedLayerSum(s)) = "UnboundLocalError"}
WriteReached(s) ==
    \A j \in 1..Len(RegisteredServos) :
        RegisteredServos[j] \in WriteRaises =>
            IndexOf(RegisteredServos, s) <= j

\* Line 322: the loop ends when stopped is set.
AfterPass == IF stopped THEN "done" ELSE "top"

\* Lines 302-324, after the last iteration: the weighted sum under
\* anim_lock, one rotate_servo call per registered servo, and the check of
\* the stopped flag; the pass is over.  An exception out of rotate_servo
\* ends the thread ("crashed").
TickMix ==
    /\ pc["tick"] = "layers"
    /\ local["tick"].i >= Len(TickList)
    /\ anim_lock = NoThread
    /\ written' = [s \in DOMAIN written |->
                       IF /\ WriteReached(s)
                          /\ rotate_servo(s, WeightedLayerSum(s)) = "written"
                       THEN Append(written[s], Remap(s, WeightedLayerSum(s)))
                       ELSE written[s]]
    /\ pc' = [pc EXCEPT !["tick"] = IF WriteRaises # {} THEN "crashed" ELSE AfterPass]
    /\ local' = [local EXCEPT !["tick"].list = <<>>, !["tick"].i = 0]
    /\ obs' = Observe("tick_mix")
    /\ UNCHANGED <<wvars, lvars, ivars, pvars, anim_lock>>
    /\ UNCHANGED <<hvars, playlist, playlist_active_idx, mvars>>

NextPlayer ==
    \/ AdvanceClock \/ PlayerCreateLayer \/ PlayerAnimate \/ PlayerPlay
    \/ TickTop \/ TickInterpolate \/ TickLayers \/ TickMix

SpecPlayer == InitPlayer /\ [][NextPlayer]_vars

(***************************************************************************)
(* SpecTick: the tick thread alone on a playing player whose layers and    *)
(* servos a client has set up: one or two layers made by create_layer,     *)
(* layer "A" with callbacks, post-delay and transient flag of the client's *)
(* choosing, and stop() called at any moment.  A pass over an empty stack  *)
(* sleeps and starts over (lines 265-267).                                 *)
(***************************************************************************)
TickStacks == {<<>>, <<"A">>, <<"A", "B">>, <<"B", "A">>}
TickWeights == {[A |-> One, B |-> One], [A |-> Half, B |-> Half]}
OnCompleteHooks == {"noop", "remove_self", "raise"}
OnStartBlendOutHooks == {"animate", "remove_self", "raise"}
TickPostDelays == {0, 1}

InitTick ==
    \E stk \in TickStacks, wt \in TickWeights, tr \in BOOLEAN,
       loopA \in BOOLEAN, loopB \in BOOLEAN, pd \in TickPostDelays,
       oc \in OnCompleteHooks, ob \in OnStartBlendOutHooks :
        LET made == Range(stk)
            n    == CHOOSE n \in ClipFrames : TRUE
        IN  /\ stack = stk
            /\ weight = [l \in LayerIds |-> IF l \in made THEN wt[l] ELSE Zero]
            /\ frames = [l \in LayerIds |-> IF l \in made THEN n ELSE 0]
            /\ current_frame = [l \in LayerIds |-> 0]
            /\ is_playing = [l \in LayerIds |-> l \in made]
            /\ looping = [l \in LayerIds |->
                             (l = "A" /\ l \in made /\ loopA) \/ (l = "B" /\ l \in made /\ loopB)]
            /\ transient = [l \in LayerIds |-> l = "A" /\ l \in made /\ tr]
            /\ post_delay_frames = [l \in LayerIds |-> IF l = "A" /\ l \in made THEN pd ELSE 0]
            /\ post_delay_count = [l \in LayerIds |-> 0]
            /\ blending_out = [l \in LayerIds |-> FALSE]
            /\ blend_out_frame_duration =
                   [l \in LayerIds |-> IF l \in made THEN InterpolationDuration * Framerate ELSE 0]
            /\ on_complete = [l \in LayerIds |-> IF l = "A" /\ l \in made THEN oc ELSE "noop"]
            /\ animation_name = [l \in LayerIds |-> IF l \in made THEN l ELSE "None"]
            /\ on_start_blend_out =
                   [l \in LayerIds |-> IF l = "A" /\ l \in made THEN ob
                                       ELSE IF l \in made THEN "animate" ELSE "noop"]
            /\ IInit0
            /\ player_playing = TRUE /\ next_frame_time = 0 /\ last_frame_time = 0
            /\ stopped = FALSE
            /\ anim_lock = NoThread
            /\ pc = [t \in {"tick"} |-> "top"]
            /\ local = [t \in {"tick"} |-> [frame_delta |-> 0, list |-> <<>>, i |-> 0]]
            /\ written = [s \in Servos |-> <<>>]
            /\ playlist = <<>> /\ playlist_active_idx = 0
            /\ MInit0
            /\ obs = [op |-> "init", active |-> FALSE, layer |-> NoLayer,
                      animate_calls |-> 0, req |-> <<>>, completed |-> {},
              hook |-> <<>>, played |-> NoLayer]

\* Lines 265-267: a pass that finds the stack empty sleeps 0.1 s and
\* starts the next pass, without reaching the check of line 322.
TickIdle ==
    /\ pc["tick"] = "top"
    /\ Len(stack) = 0
    /\ pc' = [pc EXCEPT !["tick"] = "sleep"]
    /\ obs' = Observe("tick_idle")
    /\ UNCHANGED <<wvars, lvars, ivars, pvars, anim_lock, local, hvars, xvars>>

TickWake ==
    /\ pc["tick"] = "sleep"
    /\ pc' = [pc EXCEPT !["tick"] = "top"]
    /\ obs' = Observe("tick_wake")
    /\ UNCHANGED <<wvars, lvars, ivars, pvars, anim_lock, local, hvars, xvars>>

\* Lines 271-273 and 322: a pass with layers that runs no frame (the
\* player is paused or the frame is not due) goes to the stopped check.
TickSkip ==
    /\ pc["tick"] = "top"
    /\ Len(stack) # 0
    /\ ~(player_playing /\ now >= next_frame_time)
    /\ pc' = [pc EXCEPT !["tick"] = AfterPass]
    /\ obs' = IF stopped THEN Observe("tick_skip") ELSE obs
    /\ UNCHANGED <<wvars, lvars, ivars, pvars, anim_lock, local, hvars, xvars>>

\* AnimationPlayer.stop (lines 331-341), with pause (lines 345-347):
\* rotate_servo(servo_id, None) for every servo, every layer rewound.
PlayerStop ==
    /\ ~stopped
    /\ player_playing' = FALSE
    /\ next_frame_time' = now
    /\ written' = [s \in DOMAIN written |-> Append(written[s], NoAngle)]
    /\ current_frame' = [l \in LayerIds |-> IF l \in Range(stack) THEN 0 ELSE current_frame[l]]
    /\ stopped' = TRUE
    /\ obs' = Observe("stop")
    /\ UNCHANGED <<wvars, frames, is_playing, looping, transient, post_delay_frames,
                   post_delay_count, blending_out, blend_out_frame_duration,
                   ivars, last_frame_time, tvars, hvars, playlist, playlist_active_idx,
                   mvars>>

TickThread ==
    \/ TickTop \/ TickInterpolate \/ TickLayers \/ TickMix
    \/ TickIdle \/ TickWake \/ TickSkip

NextTick == AdvanceClock \/ PlayerStop \/ TickThread

SpecTick == InitTick /\ [][NextTick]_vars

\* The tick thread is scheduled fairly.
SpecTickFair == SpecTick /\ WF_vars(TickThread)

(***************************************************************************)
(* SpecSink: the tick thread on a playing player with one or two looping   *)
(* layers and any choice of registered servos, some of which refuse a      *)
(* value outside their range.                                              *)
(***************************************************************************)
SinkStacks == {<<"A">>, <<"A", "B">>}
SinkServos == (SUBSET Range(ServoOrder)) \ {{}}

InitSink ==
    \E stk \in SinkStacks, wt \in TickWeights, registered \in SinkServos :
        LET made == Range(stk)
            n    == CHOOSE n \in ClipFrames : TRUE
        IN  /\ stack = stk
            /\ weight = [l \in LayerIds |-> IF l \in made THEN wt[l] ELSE Zero]
            /\ frames = [l \in LayerIds |-> IF l \in made THEN n ELSE 0]
            /\ current_frame = [l \in LayerIds |-> 0]
            /\ is_playing = [l \in LayerIds |-> l \in made]
            /\ looping = [l \in LayerIds |-> l \in made]
            /\ transient = [l \in LayerIds |-> FALSE]
            /\ post_delay_frames = [l \in LayerIds |-> 0]
            /\ post_delay_count = [l \in LayerIds |-> 0]
            /\ blending_out = [l \in LayerIds |-> FALSE]
            /\ blend_out_frame_duration =
                   [l \in LayerIds |-> IF l \in made THEN InterpolationDuration * Framerate ELSE 0]
            /\ on_complete = [l \in LayerIds |-> "noop"]
            /\ on_start_blend_out = [l \in LayerIds |-> IF l \in made THEN "animate" ELSE "noop"]
            /\ animation_name = [l \in LayerIds |-> IF l \in made THEN l ELSE "None"]
            /\ IInit0
            /\ player_playing = TRUE /\ next_frame_time = 0 /\ last_frame_time = 0
            /\ stopped = FALSE
            /\ anim_lock = NoThread
            /\ pc = [t \in {"tick"} |-> "top"]
            /\ local = [t \in {"tick"} |-> [frame_delta |-> 0, list |-> <<>>, i |-> 0]]
            /\ written = [s \in registered |-> <<>>]
            /\ playlist = <<>> /\ playlist_active_idx = 0
            /\ MInit0
            /\ obs = [op |-> "init", active |-> FALSE, layer |-> NoLayer,
                      animate_calls |-> 0, req |-> <<>>, completed |-> {},
                      hook |-> <<>>, played |-> NoLayer]

NextSink ==
    \/ AdvanceClock
    \/ TickTop \/ TickInterpolate \/ TickLayers \/ TickMix \/ TickSkip

SpecSink == InitSink /\ [][NextSink]_vars

\* The value of this pass for servo s is outside the range the servo's
\* remap function or its setter accepts.
WriteFails(s) ==
    \/ RemapRaises(s, WeightedLayerSum(s))
    \/ SetterRaises(s, WeightedLayerSum(s))

\* C21: a pass ends with the thread alive, every servo whose value was
\* refused skipped, and every other servo written once.
C21_WriteFailureContained ==
    obs.op = "tick_mix" =>
        /\ pc["tick"] # "crashed"
        /\ \A s \in DOMAIN written :
               written[s] = IF WriteFails(s) THEN <<>> ELSE <<WeightedLayerSum(s)>>

(***************************************************************************)
(* SpecLookup: a client that builds the stack with create_layer and        *)
(* add_layer, takes layers out with remove_layer and looks layers up by    *)
(* name.  obs holds the last call: for a lookup the name asked for, the    *)
(* value returned and the stack as it was before the call.                 *)
(***************************************************************************)
LookupNames == LayerIds \cup {"D", ""}

InitLookup ==
    /\ HInit0 /\ XInit0
    /\ WInit0 /\ LInit0 /\ IInit0 /\ PInit0 /\ TInit0
    /\ obs = [op |-> "init", name |-> "", result |-> "None", before |-> <<>>]

LookupCreateLayer ==
    \E l \in LayerIds, n \in ClipFrames, loop \in BOOLEAN :
        /\ create_layer(l, n, Zero, loop, ~loop)
        /\ obs' = [op |-> "create_layer", name |-> l, result |-> l, before |-> stack]
        /\ UNCHANGED <<ivars, pvars, tvars, xvars>>

LookupAddLayer ==
    \E l \in LayerIds, n \in ClipFrames :
        /\ add_layer(l, n, One, TRUE)
        /\ obs' = [op |-> "add_layer", name |-> "", result |-> l, before |-> stack]
        /\ UNCHANGED <<ivars, pvars, tvars, xvars>>

LookupRemoveLayer ==
    \E l \in Range(stack) :
        /\ stack' = remove_layer(stack, l)
        /\ obs' = [op |-> "remove_layer", name |-> "", result |-> "None", before |-> stack]
        /\ UNCHANGED <<weight, lvars, ivars, pvars, tvars, hvars, xvars>>

GetLayerByName ==
    \E layer_name \in LookupNames :
        /\ obs' = [op |-> "get_layer_by_name", name |-> layer_name,
                   result |-> get_layer_by_name(stack, layer_name), before |-> stack]
        /\ UNCHANGED <<wvars, lvars, ivars, pvars, tvars, hvars, xvars>>

NextLookup ==
    LookupCreateLayer \/ LookupAddLayer \/ LookupRemoveLayer \/ GetLayerByName

SpecLookup == InitLookup /\ [][NextLookup]_vars

\* The name matches no layer of the stack: neither a layer's
\* _animation_name nor the stem of its clip's file name.
MatchesNoLayer(stk, layer_name) ==
    \A i \in 1..Len(stk) :
        /\ animation_name[stk[i]] # layer_name
        /\ ClipNameParts(stk[i])[1] # layer_name

FirstStoredName(stk, layer_name) ==
    LET named == SelectSeq(stk, LAMBDA l : animation_name[l] = layer_name)
    IN  IF Len(named) # 0 THEN named[1] ELSE "None"

\* C31: a lookup goes by the stored names alone: it returns the first
\* layer in insertion order whose stored name is the name asked for, and
\* None when no layer has that stored name, even if a layer's clip file
\* is called so.
C31_StoredNameAuthoritative ==
    obs.op = "get_layer_by_name" =>
        obs.result = FirstStoredName(obs.before, obs.name)

(***************************************************************************)
(* SpecPlaylist: the playlist sequencer riding on the tick thread.  Two    *)
(* layers made by create_layer exist on a playing player; set_playlist     *)
(* starts a playlist over them.  The sequencer must run for ever, so time  *)
(* is kept relative here: now stays 0 and the passing of one clock unit    *)
(* moves every stored time one unit into the past.  A stored time is       *)
(* kept only as far back as the code can tell it apart: the loop compares  *)
(* next_frame_time and the interpolation's end with now, and a pass is     *)
(* taken to start at most MaxLate clock units after the previous one.      *)
(***************************************************************************)
MaxLate == 4

PlaylistLayers == {"A", "B"}
PlaylistPostDelays == {0, 1}
PlaylistInputs ==
    {<<[name |-> a, post_delay |-> p]>> : a \in PlaylistLayers, p \in PlaylistPostDelays}
    \cup {<<[name |-> "A", post_delay |-> p], [name |-> "B", post_delay |-> 0]>> :
              p \in PlaylistPostDelays}
    \cup {<<[name |-> "C", post_delay |-> 0]>>}     \* no layer of that name exists

InitPlaylist ==
    \E loopA \in BOOLEAN, loopB \in BOOLEAN, trA \in BOOLEAN, trB \in BOOLEAN :
        LET n == CHOOSE n \in ClipFrames : TRUE
        IN  /\ stack = <<"A", "B">>
            /\ weight = [l \in LayerIds |-> IF l = "A" THEN One ELSE Zero]
            /\ frames = [l \in LayerIds |-> IF l \in PlaylistLayers THEN n ELSE 0]
            /\ current_frame = [l \in LayerIds |-> 0]
            /\ is_playing = [l \in LayerIds |-> l \in PlaylistLayers]
            /\ looping = [l \in LayerIds |-> (l = "A" /\ loopA) \/ (l = "B" /\ loopB)]
            /\ transient = [l \in LayerIds |-> (l = "A" /\ trA) \/ (l = "B" /\ trB)]
            /\ post_delay_frames = [l \in LayerIds |-> 0]
            /\ post_delay_count = [l \in LayerIds |-> 0]
            /\ blending_out = [l \in LayerIds |-> FALSE]
            /\ blend_out_frame_duration =
                   [l \in LayerIds |->
                       IF l \in PlaylistLayers THEN InterpolationDuration * Framerate ELSE 0]
            /\ on_complete = [l \in LayerIds |-> "noop"]
            /\ on_start_blend_out =
                   [l \in LayerIds |-> IF l \in PlaylistLayers THEN "animate" ELSE "noop"]
            /\ animation_name = [l \in LayerIds |-> IF l \in PlaylistLayers THEN l ELSE "None"]
            /\ IInit0
            /\ player_playing = TRUE /\ next_frame_time = 0 /\ last_frame_time = 0
            /\ stopped = FALSE
            /\ anim_lock = NoThread
            /\ pc = [t \in {"tick"} |-> "top"]
            /\ local = [t \in {"tick"} |-> [frame_delta |-> 0, list |-> <<>>, i |-> 0]]
            /\ written = <<>>
            /\ playlist = <<>> /\ playlist_active_idx = 0
            /\ MInit0
            /\ obs = [op |-> "init", active |-> FALSE, layer |-> NoLayer,
                      animate_calls |-> 0, req |-> <<>>, completed |-> {},
                      hook |-> <<>>, played |-> NoLayer]

\* AnimationPlayer.set_playlist (lines 104-119) with a playlist of at
\* least one entry.
set_playlist(pl) ==
    LET playlist_layer == get_layer_by_name(stack, pl[1].name)
    IN  /\ playlist' = pl
        /\ playlist_active_idx' = 0
        /\ IF playlist_layer # "None"
           THEN /\ on_complete' = [on_complete EXCEPT ![playlist_layer] = "increment_playlist"]
                /\ post_delay_frames' =
                       [post_delay_frames EXCEPT ![playlist_layer] = pl[1].post_delay]
                /\ animate_layer_weight(playlist_layer, One, 1)
                /\ current_frame' = [current_frame EXCEPT ![playlist_layer] = 0]
                /\ is_playing' = [is_playing EXCEPT ![playlist_layer] = TRUE]
           ELSE UNCHANGED <<on_complete, post_delay_frames, irec,
                            blend_out_frame_duration, current_frame, is_playing>>
        /\ UNCHANGED <<wvars, frames, looping, transient, post_delay_count,
                       blending_out, now, pvars, tvars, on_start_blend_out,
                       animation_name, written, mvars>>

\* The layer set_playlist called play() on, for the observer.
PlayedBy(pl) ==
    LET playlist_layer == get_layer_by_name(stack, pl[1].name)
    IN  IF playlist_layer # "None" THEN playlist_layer ELSE NoLayer

\* set_playlist called once, between two passes of the loop.
SetPlaylist ==
    \E pl \in PlaylistInputs :
        /\ playlist = <<>>
        /\ pc["tick"] = "top"
        /\ set_playlist(pl)
        /\ obs' = [Observe("set_playlist") EXCEPT !.played = PlayedBy(pl)]

\* One clock unit passes between two passes of the loop.
Earlier(t, floor) == IF t - 1 < floor THEN floor ELSE t - 1

SlideClock ==
    /\ pc["tick"] \in {"top", "sleep"}
    /\ next_frame_time' = Earlier(next_frame_time, 0)
    /\ last_frame_time' = Earlier(last_frame_time, 0 - MaxLate)
    /\ interpolation_end_time' = Earlier(interpolation_end_time, 0)
    /\ interpolation_start_time' = Earlier(interpolation_start_time, 0 - Seconds(2))
    /\ obs' = Observe("clock")
    /\ UNCHANGED <<wvars, lvars, interpolating, interpolation_layer,
                   interpolation_start_weight, interpolation_end_weight, now,
                   player_playing, stopped, tvars, hvars, xvars>>

NextPlaylist == SetPlaylist \/ SlideClock \/ TickThread

SpecPlaylist == InitPlaylist /\ [][NextPlaylist]_vars

\* The tick thread is scheduled fairly and time passes.
SpecPlaylistFair ==
    SpecPlaylist /\ WF_vars(TickThread) /\ WF_vars(SlideClock)

(***************************************************************************)
(* Claims about the playlist sequencer, checked under SpecPlaylist.        *)
(***************************************************************************)
\* The state right after the iteration in which the current entry's layer
\* completed and invoked the sequencer; the entry that was current, and
\* the one that is now.
AfterPlaylistAdvance ==
    /\ obs.hook # <<>> /\ obs.hook[1] = "increment_playlist"
    /\ pc["tick"] # "crashed"
PreviousEntry ==
    playlist[((playlist_active_idx + Len(playlist) - 1) % Len(playlist)) + 1]
CurrentEntry == playlist[playlist_active_idx + 1]

\* C13: after the advance the previous entry's layer no longer carries the
\* hook (unless it is the next entry's layer too), the current index is
\* the next one, and the layer of the entry at that index is in the stack
\* with the entry's post-delay, the hook as on_complete, an active
\* crossfade to 1.0, playing from frame 0.
C13_PlaylistAdvance ==
    AfterPlaylistAdvance =>
        LET prev == PreviousEntry.name
            nxt  == CurrentEntry.name
        IN  /\ obs.hook[2] = prev
            /\ prev # nxt => on_complete[prev] = "None"
            /\ nxt \in Range(stack)
            /\ post_delay_frames[nxt] = CurrentEntry.post_delay
            /\ on_complete[nxt] = "increment_playlist"
            /\ interpolating /\ interpolation_layer = nxt
            /\ interpolation_end_weight = One
            /\ is_playing[nxt] /\ current_frame[nxt] = 0

\* C14: once a playlist is set, the sequencer goes on playing the next
\* entry's layer again and again (under SpecPlaylistFair: fair ticking,
\* time passing); the entries are visited in cyclic order, so every
\* entry's layer is then played infinitely often.
C14_PlaylistNeverStalls ==
    (playlist # <<>> /\ \A i \in 1..Len(playlist) : playlist[i].name \in PlaylistLayers)
        ~> (obs.played # NoLayer)

\* C30: right after set_playlist on a playlist with entries the index is
\* 0 and the stack holds a layer for entry 0 that carries the sequencer
\* as on_complete and the entry's post-delay, is the target of the active
\* interpolation towards 1.0, and plays from frame 0.
C30_SetPlaylistStartsEntry0 ==
    obs.op = "set_playlist" =>
        LET layer == get_layer_by_name(stack, playlist[1].name)
        IN  /\ playlist_active_idx = 0
            /\ layer # "None"
            /\ on_complete[layer] = "increment_playlist"
            /\ post_delay_frames[layer] = playlist[1].post_delay
            /\ interpolating /\ interpolation_layer = layer
            /\ interpolation_end_weight = One
            /\ is_playing[layer] /\ current_frame[layer] = 0

(***************************************************************************)
(* Claims about one pass of the tick loop, checked under SpecTick.  They   *)
(* are stated on the state right after the mix that ends the pass.         *)
(***************************************************************************)
AfterPassEnd == obs.op = "tick_mix"

\* C15: a transient, non-looping layer whose on_complete fired during a
\* pass is no longer in the stack when the pass ends.
C15_TransientRemovedOnComplete ==
    AfterPassEnd =>
        \A l \in obs.completed :
            (transient[l] /\ ~looping[l]) => l \notin Range(stack)

\* C16: when a callback removes the layer that invokes it, the pass goes
\* on without an exception and the layer is absent from the stack.
C16_SelfRemovingCallbackTolerated ==
    (obs.hook # <<>> /\ obs.hook[1] = "remove_self") =>
        /\ pc["tick"] # "crashed"
        /\ obs.hook[2] \notin Range(stack)

\* C17: when a layer's callback raises, the tick thread goes on: the pass
\* continues with the other layers and the mix, and later passes run.
C17_RaisingCallbackContained ==
    (obs.hook # <<>> /\ obs.hook[1] = "raise") => pc["tick"] # "crashed"

\* The angles the pass passed to rotate_servo for servo s (stop's None
\* left aside), and the sum of weight times sampled position over the stack.
AnglesWritten(s) == SelectSeq(written[s], LAMBDA v : v # NoAngle)
UnnormalizedSum(s) ==
    RSum([l \in LayerIds |->
             RMul(weight[l], <<ClipPosition(l, s, current_frame[l]), 1>>)],
         Range(stack))

\* C28: a pass in which a callback removed a layer does not end before
\* every layer of the snapshot taken at its start has been advanced.
C28_SnapshotAdvancedOnce ==
    (pc["tick"] = "crashed" /\ obs.hook # <<>> /\ obs.hook[1] = "remove_self") =>
        local["tick"].i = Len(local["tick"].list)

\* C29: the interpolation step of a pass comes after its advance step: an
\* interpolation that a callback started during the pass has taken its
\* first step, at the time of the pass, when the pass ends.
C29_InterpolationAfterAdvance ==
    ( /\ AfterPassEnd
      /\ interpolating /\ interpolation_start_time = now
      /\ interpolation_layer \in Range(stack) )
    => weight = set_layer_weight(stack, weight, interpolation_layer,
                                 InterpolatedWeight(now))

\* C18: a pass writes each registered servo exactly once, with the sum
\* over the stack of weight times the position at the layer's
\* current_frame, not renormalized.
C18_WritesUnnormalizedSumOnce ==
    AfterPassEnd =>
        \A s \in Servos : AnglesWritten(s) = <<UnnormalizedSum(s)>>

\* Two layers of weight 1 each were mixed: the weights sum to 2.
C18_Witness ==
    /\ AfterPassEnd
    /\ Len(stack) = 2
    /\ \A l \in Range(stack) : weight[l] = One
    /\ AnglesWritten("s1") = <<UnnormalizedSum("s1")>>
    /\ RLt(<<50, 1>>, UnnormalizedSum("s1"))

\* C19: a pass that ends with an empty stack writes no servo.
C19_NoWriteOnEmptyStack ==
    (AfterPassEnd /\ Len(stack) = 0) =>
        \A s \in Servos : AnglesWritten(s) = <<>>

\* C32: once stop() has returned, the last value written to every
\* registered servo is the power-off value (None): the tick thread writes
\* no angle afterwards, wherever in its pass stop() found it.
C32_NoWriteAfterStop ==
    stopped =>
        \A s \in DOMAIN written :
            written[s] # <<>> /\ written[s][Len(written[s])] = NoAngle

\* C20: after stop() the tick thread eventually ends (under SpecTickFair,
\* the tick thread scheduled fairly), whatever the stack holds.
C20_StopTerminates ==
    stopped ~> (pc["tick"] \in {"done", "crashed"})

(***************************************************************************)
(* Claims about the tick's interpolation step, checked under SpecPlayer.   *)
(* They are stated on the state right after the step: the clock still      *)
(* shows the time at which the step ran.                                   *)
(***************************************************************************)
AfterInterpolationStep == obs.op = "tick_interpolate" /\ obs.active
InterpolationTargetInStack == obs.layer \in Range(stack)

\* C9 as stated: a tick at now >= end_time with an interpolation active
\* leaves the target layer's weight equal to end_weight and the
\* interpolation inactive.
C9_SnapsToEndWeight ==
    (AfterInterpolationStep /\ now >= interpolation_end_time) =>
        /\ ~interpolating
        /\ InterpolationTargetInStack =>
               weight[obs.layer] = interpolation_end_weight

\* C9 amended: the target layer's weight is end_weight clamped to [0, 1].
C9_SnapsToClampedEndWeight ==
    (AfterInterpolationStep /\ now >= interpolation_end_time) =>
        /\ ~interpolating /\ interpolation_layer = NoLayer
        /\ InterpolationTargetInStack =>
               weight[obs.layer] = Unit01(interpolation_end_weight)

\* A crossfade from 0 to 1.0 over 2 s, with a second layer in the stack,
\* has reached its end time and the tick has set the weight to 1.
C9_Witness ==
    /\ AfterInterpolationStep /\ InterpolationTargetInStack
    /\ Len(stack) = 2
    /\ interpolation_end_time - interpolation_start_time = Seconds(2)
    /\ now >= interpolation_end_time
    /\ interpolation_start_weight = Zero /\ interpolation_end_weight = One
    /\ weight[obs.layer] = One /\ ~interpolating

\* C11: there is one interpolation record; an animate_layer_weight call on
\* a layer overwrites it with (the layer, the layer's current weight, the
\* requested end weight, now, now + duration), whatever interpolation was
\* active before, and a tick moves weights only for the record's layer.
C11_StateAfterAnimate ==
    obs.req # <<>> =>
        /\ interpolating
        /\ interpolation_layer = obs.req[1]
        /\ interpolation_start_weight = weight[obs.req[1]]
        /\ interpolation_end_weight = obs.req[2]
        /\ interpolation_start_time = now
        /\ interpolation_end_time = now + Seconds(obs.req[3])

C11_TickDrivesRecordLayer ==
    (obs'.op = "tick_interpolate" /\ weight' # weight) =>
        /\ interpolating /\ interpolation_layer \in Range(stack)
        /\ weight'[interpolation_layer] =
               IF now >= interpolation_end_time
               THEN Unit01(interpolation_end_weight)
               ELSE Unit01(InterpolatedWeight(now))

C11_SingleInterpolationRecord ==
    [][(C11_StateAfterAnimate)' /\ C11_TickDrivesRecordLayer]_vars

\* An animate_layer_weight call arrived while an interpolation on another
\* layer was active, and replaced it.
C11_Witness ==
    /\ obs.req # <<>> /\ obs.active
    /\ obs.layer # NoLayer /\ obs.layer # obs.req[1]
    /\ interpolation_layer = obs.req[1]

\* C12: when animate_layer_weight(layer, w, duration) with duration <= 0
\* returns, the layer's weight is clamp(w) and no interpolation is active.
C12_ZeroDurationIsImmediate ==
    (obs.op = "animate" /\ obs.req[3] <= 0) =>
        /\ ~interpolating
        /\ weight[obs.req[1]] = Unit01(obs.req[2])

\* start_weight + (end_weight - start_weight) * (now - start_time)
\*                                            / (end_time - start_time)
LinearInterpolation ==
    RAdd(interpolation_start_weight,
         RMul(RSub(interpolation_end_weight, interpolation_start_weight),
              Rat(now - interpolation_start_time,
                  interpolation_end_time - interpolation_start_time)))

DuringInterpolation ==
    /\ AfterInterpolationStep /\ InterpolationTargetInStack
    /\ interpolation_start_time <= now /\ now < interpolation_end_time

\* C10 as stated: a tick at start_time <= now < end_time assigns the linear
\* interpolation of start_weight and end_weight to the target layer.
C10_AssignsLinearInterpolation ==
    DuringInterpolation => weight[obs.layer] = LinearInterpolation

\* C10 amended: it assigns the linear interpolation clamped to [0, 1].
C10_AssignsClampedInterpolation ==
    DuringInterpolation => weight[obs.layer] = Unit01(LinearInterpolation)

\* From 0.0 to 1.0 over 2 s the tick at 1 s assigns 1/2.
C10_Witness ==
    /\ DuringInterpolation
    /\ interpolation_end_time - interpolation_start_time = Seconds(2)
    /\ now - interpolation_start_time = Seconds(1)
    /\ interpolation_start_weight = Zero /\ interpolation_end_weight = One
    /\ weight[obs.layer] = Half

\* C35: time spent paused is not played back.  While the player is
\* paused no layer's frame changes, and a pass that starts right after
\* play(), before any time has passed, hands the layers' update a delta of
\* no frame.
C35_PausedTimeNotPlayed ==
    [][ /\ (~player_playing /\ ~player_playing') => current_frame' = current_frame
        /\ (obs.op = "play" /\ obs'.op = "tick_top") =>
               DeltaFrames(local'["tick"].frame_delta) = 0 ]_vars

(***************************************************************************)
(* SpecRace: the tick thread "t1", which calls set_layer_weight (its        *)
(* interpolation step) and runs the mix, and a second thread "t2" calling  *)
(* set_layer_weight, on a stack of three layers.  A call is the steps of   *)
(* lines                                                                   *)
(* 223-260 one shared access at a time: the weights are read one layer at  *)
(* a time without the lock, the new vector is computed on the copy, then   *)
(* anim_lock is taken and the weights are assigned one layer at a time.    *)
(* The mix (lines 302-315) takes anim_lock and reads one layer at a time.  *)
(***************************************************************************)
MaxRaceCalls == 1       \* set_layer_weight calls per thread

RaceStack == <<"A", "B", "C">>
RaceInitialWeights ==
    { [A |-> One, B |-> Zero, C |-> Zero],
      [A |-> Half, B |-> <<1, 4>>, C |-> <<1, 4>>] }
RaceWeightInputs == {Half}

\* "with self.anim_lock" (lines 258 and 303) enters when no thread holds it.
LockIgnored(holder) == TRUE
LockFree(holder) == holder = NoThread

Blank == [layer |-> NoLayer, w |-> Zero, weights |-> <<>>, i |-> 0, seen |-> {}]

InitRace ==
    /\ HInit0 /\ XInit0
    /\ LInit0 /\ IInit0 /\ PInit0
    /\ stack = RaceStack
    /\ weight \in RaceInitialWeights
    /\ anim_lock = NoThread
    /\ pc = [t \in Threads |-> "idle"]
    /\ local = [t \in Threads |-> Blank]
    /\ obs = [w0 |-> weight,
              first |-> [t \in Threads |-> <<>>],
              begun |-> [t \in Threads |-> 0],
              done |-> [t \in Threads |-> 0]]

\* Line 223 and the start of the list comprehension of line 224.
SlwBegin(t) ==
    \E l \in Range(stack), w \in RaceWeightInputs :
        /\ pc[t] = "idle"
        /\ obs.begun[t] < MaxRaceCalls
        /\ local' = [local EXCEPT ![t] = [Blank EXCEPT !.layer = l, !.w = Clamp(w)]]
        /\ pc' = [pc EXCEPT ![t] = "read"]
        /\ obs' = [obs EXCEPT !.begun[t] = @ + 1,
                               !.first[t] = IF obs.begun[t] = 0 THEN <<l, w>> ELSE @]
        /\ UNCHANGED <<wvars, lvars, ivars, pvars, anim_lock>>
    /\ UNCHANGED <<hvars, xvars>>

\* Line 224: anim.weight of the next layer goes into the copy.
SlwRead(t) ==
    /\ pc[t] = "read"
    /\ local[t].i < Len(stack)
    /\ local' = [local EXCEPT ![t].i = @ + 1,
                              ![t].weights = Append(@, weight[stack[local[t].i + 1]])]
    /\ UNCHANGED <<wvars, lvars, ivars, pvars, anim_lock, pc, obs>>
    /\ UNCHANGED <<hvars, xvars>>

\* Lines 226-258: the new vector is computed on the copy and the thread
\* enters "with self.anim_lock".
SlwAcquire(t) ==
    /\ pc[t] = "read"
    /\ local[t].i = Len(stack)
    /\ LockFree(anim_lock)
    /\ anim_lock' = t
    /\ local' = [local EXCEPT
                    ![t].i = 0,
                    ![t].weights = Redistribute(local[t].weights,
                                                IndexOf(stack, local[t].layer),
                                                local[t].w)]
    /\ pc' = [pc EXCEPT ![t] = "write"]
    /\ UNCHANGED <<wvars, lvars, ivars, pvars, obs>>
    /\ UNCHANGED <<hvars, xvars>>

\* Lines 259-260: one assignment anim.weight = clamp(norm_weight).
SlwWrite(t) ==
    /\ pc[t] = "write"
    /\ local[t].i < Len(stack)
    /\ weight' = [weight EXCEPT ![stack[local[t].i + 1]] =
                                    Clamp(local[t].weights[local[t].i + 1])]
    /\ local' = [local EXCEPT ![t].i = @ + 1]
    /\ UNCHANGED <<stack, lvars, ivars, pvars, anim_lock, pc, obs>>
    /\ UNCHANGED <<hvars, xvars>>

\* The end of the with block: the lock is released and the call returns.
SlwRelease(t) ==
    /\ pc[t] = "write"
    /\ local[t].i = Len(stack)
    /\ anim_lock' = NoThread
    /\ local' = [local EXCEPT ![t] = Blank]
    /\ pc' = [pc EXCEPT ![t] = "idle"]
    /\ obs' = [obs EXCEPT !.done[t] = @ + 1]
    /\ UNCHANGED <<wvars, lvars, ivars, pvars>>
    /\ UNCHANGED <<hvars, xvars>>

\* How far another thread's assignment loop has got: the number of its
\* completed calls and of the layers its current call has assigned (a call
\* that has assigned every layer counts as completed).
WriteProgress(u) ==
    IF pc[u] = "write" /\ local[u].i = Len(stack) THEN <<obs.done[u] + 1, 0>>
    ELSE IF pc[u] = "write" THEN <<obs.done[u], local[u].i>>
    ELSE <<obs.done[u], 0>>

\* Line 303: the tick enters "with self.anim_lock" for the weighted sum.
MixAcquire(t) ==
    /\ t = "t1"
    /\ pc[t] = "idle"
    /\ LockFree(anim_lock)
    /\ anim_lock' = t
    /\ local' = [local EXCEPT ![t] = Blank]
    /\ pc' = [pc EXCEPT ![t] = "mix"]
    /\ UNCHANGED <<wvars, lvars, ivars, pvars, obs>>
    /\ UNCHANGED <<hvars, xvars>>

\* Lines 305-313: anim.weight of the next layer is read into the sum.
MixRead(t) ==
    /\ pc[t] = "mix"
    /\ local[t].i < Len(stack)
    /\ local' = [local EXCEPT
                    ![t].i = @ + 1,
                    ![t].weights = Append(@, weight[stack[local[t].i + 1]]),
                    ![t].seen = @ \cup {[u \in Threads \ {t} |-> WriteProgress(u)]}]
    /\ UNCHANGED <<wvars, lvars, ivars, pvars, anim_lock, pc, obs>>
    /\ UNCHANGED <<hvars, xvars>>

\* The end of the with block of the mix.
MixRelease(t) ==
    /\ pc[t] = "mix"
    /\ local[t].i = Len(stack)
    /\ anim_lock' = NoThread
    /\ local' = [local EXCEPT ![t] = Blank]
    /\ pc' = [pc EXCEPT ![t] = "idle"]
    /\ UNCHANGED <<wvars, lvars, ivars, pvars, obs>>
    /\ UNCHANGED <<hvars, xvars>>

NextRace ==
    \E t \in Threads :
        \/ SlwBegin(t) \/ SlwRead(t) \/ SlwAcquire(t) \/ SlwWrite(t)
        \/ SlwRelease(t) \/ MixAcquire(t) \/ MixRead(t) \/ MixRelease(t)

SpecRace == InitRace /\ [][NextRace]_vars

(***************************************************************************)
(* Claims about anim_lock, checked under SpecRace.                         *)
(***************************************************************************)
\* C4: all the weights the mix reads in one tick are from before another
\* thread's assignment loop or all are from after it: every read of the
\* pass saw the same number of completed assignments, none half done.
C4_MixReadsWholeVector ==
    \A t \in Threads :
        pc[t] = "mix" =>
            /\ Cardinality(local[t].seen) <= 1
            /\ \A s \in local[t].seen : \A u \in Threads \ {t} : s[u][2] = 0

\* A mix that has read every layer while the other thread, inside a
\* set_layer_weight call, waits for the lock with its new vector.
C4_Witness ==
    \E t \in Threads, u \in Threads :
        /\ t # u
        /\ pc[t] = "mix" /\ local[t].i = Len(stack)
        /\ pc[u] = "read" /\ local[u].i = Len(stack)

\* The weights after the calls c1 then c2, run one after the other.
SerialResult(c1, c2) ==
    set_layer_weight(stack,
                     set_layer_weight(stack, obs.w0, c1[1], c1[2]),
                     c2[1], c2[2])

\* C5: when two threads have each completed one set_layer_weight call, the
\* weights are those of the two calls run in one of the two serial orders.
C5_CallsSerialize ==
    ( /\ \A t \in Threads : obs.done[t] = 1 /\ obs.begun[t] = 1
      /\ \A t \in Threads : pc[t] = "idle" )
    => \/ weight = SerialResult(obs.first["t1"], obs.first["t2"])
       \/ weight = SerialResult(obs.first["t2"], obs.first["t1"])

(***************************************************************************)
(* SpecCrossfade: the tick thread "tick" and a control thread "ctl" that   *)
(* calls animate_layer_weight, on a playing player with two looping        *)
(* layers, of which B is being faded in by an earlier call.  Neither the call (lines 210-220) nor the interpolation step of *)
(* the loop (lines 278-291) takes a lock, so each is the sequence of its   *)
(* statements: the call assigns the six fields of the record one by one,   *)
(* the step tests _interpolating, compares the clock with the end time,    *)
(* calls set_layer_weight and clears the layer and the flag.  obs.pending  *)
(* holds the request of the last call that has returned, until a snap of   *)
(* the loop applies it or the next call begins.                            *)
(***************************************************************************)
MaxCrossfadeCalls == 1
CrossfadeStack == <<"A", "B">>
CrossfadeWeights == {Zero, One}
CrossfadeDurations == {0, 1}         \* seconds

InitCrossfade ==
    LET made == Range(CrossfadeStack)
        n    == CHOOSE n \in ClipFrames : TRUE
    IN  /\ stack = CrossfadeStack
        /\ weight = [l \in LayerIds |-> IF l = "A" THEN One ELSE Zero]
        /\ frames = [l \in LayerIds |-> IF l \in made THEN n ELSE 0]
        /\ current_frame = [l \in LayerIds |-> 0]
        /\ is_playing = [l \in LayerIds |-> l \in made]
        /\ looping = [l \in LayerIds |-> l \in made]
        /\ transient = [l \in LayerIds |-> FALSE]
        /\ post_delay_frames = [l \in LayerIds |-> 0]
        /\ post_delay_count = [l \in LayerIds |-> 0]
        /\ blending_out = [l \in LayerIds |-> FALSE]
        /\ blend_out_frame_duration =
               [l \in LayerIds |-> IF l \in made THEN InterpolationDuration * Framerate ELSE 0]
        /\ on_complete = [l \in LayerIds |-> "noop"]
        /\ on_start_blend_out = [l \in LayerIds |-> IF l \in made THEN "animate" ELSE "noop"]
        /\ animation_name = [l \in LayerIds |-> IF l \in made THEN l ELSE "None"]
        /\ interpolating = TRUE
        /\ interpolation_layer = "B"
        /\ interpolation_start_weight = Zero
        /\ interpolation_end_weight = One
        /\ interpolation_start_time = 0
        /\ interpolation_end_time = Seconds(InterpolationDuration)
        /\ now = 0
        /\ player_playing = TRUE /\ next_frame_time = 0 /\ last_frame_time = 0
        /\ stopped = FALSE
        /\ anim_lock = NoThread
        /\ pc = [t \in {"tick", "ctl"} |-> IF t = "tick" THEN "top" ELSE "idle"]
        /\ local = [t \in {"tick", "ctl"} |->
                       IF t = "tick" THEN [frame_delta |-> 0, list |-> <<>>, i |-> 0]
                       ELSE [layer |-> NoLayer, w |-> Zero, dur |-> 0]]
        /\ written = [s \in Servos |-> <<>>]
        /\ playlist = <<>> /\ playlist_active_idx = 0
        /\ MInit0
        /\ obs = [op |-> "init", active |-> FALSE, layer |-> NoLayer,
                  animate_calls |-> 0, req |-> <<>>, completed |-> {},
                  hook |-> <<>>, played |-> NoLayer, pending |-> <<>>]

\* Lines 211-214: the call begins on a layer handle and sets the flag.
CrossfadeBegin ==
    \E l \in Range(stack), w \in CrossfadeWeights, dur \in CrossfadeDurations :
        /\ pc["ctl"] = "idle"
        /\ obs.animate_calls < MaxCrossfadeCalls
        /\ interpolating' = TRUE
        /\ local' = [local EXCEPT !["ctl"] = [layer |-> l, w |-> w, dur |-> dur]]
        /\ pc' = [pc EXCEPT !["ctl"] = "start_time"]
        /\ obs' = [obs EXCEPT !.op = "animate_begin", !.animate_calls = @ + 1,
                               !.pending = <<>>]
        /\ UNCHANGED <<wvars, lvars, interpolation_layer, interpolation_start_weight,
                       interpolation_end_weight, interpolation_start_time,
                       interpolation_end_time, now, pvars, anim_lock, hvars, xvars>>

\* Lines 215-219: one assignment of the call.
CrossfadeAssign ==
    /\ pc["ctl"] \in {"start_time", "end_time", "start_weight", "end_weight", "layer"}
    /\ interpolation_start_time' =
           IF pc["ctl"] = "start_time" THEN now ELSE interpolation_start_time
    /\ interpolation_end_time' =
           IF pc["ctl"] = "end_time"
           THEN interpolation_start_time + Seconds(local["ctl"].dur)
           ELSE interpolation_end_time
    /\ interpolation_start_weight' =
           IF pc["ctl"] = "start_weight" THEN weight[local["ctl"].layer]
           ELSE interpolation_start_weight
    /\ interpolation_end_weight' =
           IF pc["ctl"] = "end_weight" THEN local["ctl"].w ELSE interpolation_end_weight
    /\ interpolation_layer' =
           IF pc["ctl"] = "layer" THEN local["ctl"].layer ELSE interpolation_layer
    /\ pc' = [pc EXCEPT !["ctl"] =
                 CASE @ = "start_time"   -> "end_time"
                   [] @ = "end_time"     -> "start_weight"
                   [] @ = "start_weight" -> "end_weight"
                   [] @ = "end_weight"   -> "layer"
                   [] @ = "layer"        -> "return"]
    /\ obs' = [obs EXCEPT !.op = "animate_assign"]
    /\ UNCHANGED <<wvars, lvars, interpolating, now, pvars, anim_lock, local,
                   hvars, xvars>>

\* Line 220 and the return of the call.
CrossfadeReturn ==
    /\ pc["ctl"] = "return"
    /\ blend_out_frame_duration' =
           [blend_out_frame_duration EXCEPT
               ![local["ctl"].layer] = local["ctl"].dur * Framerate]
    /\ pc' = [pc EXCEPT !["ctl"] = "idle"]
    /\ obs' = [obs EXCEPT !.op = "animate_return",
                           !.pending = [layer |-> interpolation_layer,
                                        end_weight |-> local["ctl"].w,
                                        start_weight |-> interpolation_start_weight,
                                        start_time |-> interpolation_start_time,
                                        end_time |-> interpolation_start_time
                                                     + Seconds(local["ctl"].dur)]]
    /\ UNCHANGED <<wvars, frames, current_frame, is_playing, looping, transient,
                   post_delay_frames, post_delay_count, blending_out, ivars, pvars,
                   anim_lock, local, hvars, xvars>>

\* Line 279: the loop tests _interpolating.
CrossfadeTickFlag ==
    /\ pc["tick"] = "interp"
    /\ pc' = [pc EXCEPT !["tick"] = IF interpolating THEN "interp_time" ELSE "layers"]
    /\ obs' = [obs EXCEPT !.op = "tick_flag"]
    /\ UNCHANGED <<wvars, lvars, ivars, pvars, anim_lock, local, hvars, xvars>>

\* Lines 280-281: the loop compares the clock with the end time.
CrossfadeTickTime ==
    /\ pc["tick"] = "interp_time"
    /\ pc' = [pc EXCEPT !["tick"] =
                 IF InterpolationDone(now, interpolation_end_time)
                 THEN "interp_snap" ELSE "interp_lerp"]
    /\ obs' = [obs EXCEPT !.op = "tick_time"]
    /\ UNCHANGED <<wvars, lvars, ivars, pvars, anim_lock, local, hvars, xvars>>

\* Line 283: set_layer_weight with the layer and end weight of the record
\* as they are now.
CrossfadeTickSnap ==
    /\ pc["tick"] = "interp_snap"
    /\ weight' = set_layer_weight(stack, weight, interpolation_layer,
                                  interpolation_end_weight)
    /\ pc' = [pc EXCEPT !["tick"] = "interp_clear_layer"]
    /\ obs' = [obs EXCEPT !.op = "tick_snap", !.pending = <<>>]
    /\ UNCHANGED <<stack, lvars, ivars, pvars, anim_lock, local, hvars, xvars>>

\* Line 284, then line 285.
CrossfadeTickClear ==
    /\ pc["tick"] \in {"interp_clear_layer", "interp_clear_flag"}
    /\ interpolation_layer' =
           IF pc["tick"] = "interp_clear_layer" THEN NoLayer ELSE interpolation_layer
    /\ interpolating' = IF pc["tick"] = "interp_clear_flag" THEN FALSE ELSE interpolating
    /\ pc' = [pc EXCEPT !["tick"] =
                 IF @ = "interp_clear_layer" THEN "interp_clear_flag" ELSE "layers"]
    /\ obs' = [obs EXCEPT !.op = "tick_clear"]
    /\ UNCHANGED <<wvars, lvars, interpolation_start_weight, interpolation_end_weight,
                   interpolation_start_time, interpolation_end_time, now, pvars,
                   anim_lock, local, hvars, xvars>>

\* Lines 287-291: the interpolated weight from the record as it is now; a
\* record whose end time has meanwhile become its start time divides by
\* zero, which ends the thread.
CrossfadeTickLerp ==
    /\ pc["tick"] = "interp_lerp"
    /\ IF interpolation_end_time = interpolation_start_time
       THEN /\ pc' = [pc EXCEPT !["tick"] = "crashed"]
            /\ UNCHANGED weight
       ELSE /\ weight' = set_layer_weight(stack, weight, interpolation_layer,
                                          InterpolatedWeight(now))
            /\ pc' = [pc EXCEPT !["tick"] = "layers"]
    /\ obs' = [obs EXCEPT !.op = "tick_lerp"]
    /\ UNCHANGED <<stack, lvars, ivars, pvars, anim_lock, local, hvars, xvars>>

NextCrossfade ==
    \/ AdvanceClock \/ TickTop \/ TickLayers \/ TickMix
    \/ CrossfadeBegin \/ CrossfadeAssign \/ CrossfadeReturn
    \/ CrossfadeTickFlag \/ CrossfadeTickTime \/ CrossfadeTickSnap
    \/ CrossfadeTickClear \/ CrossfadeTickLerp

SpecCrossfade == InitCrossfade /\ [][NextCrossfade]_vars

\* C33: from the return of an animate_layer_weight call until the loop
\* applies the request, the interpolation record is the request: active,
\* on the requested layer, with the call's weights and times; the request
\* is not dropped before the layer has the requested weight.
C33_RequestNeverLost ==
    (obs.pending # <<>> /\ weight[obs.pending.layer] # obs.pending.end_weight) =>
        /\ interpolating
        /\ interpolation_layer = obs.pending.layer
        /\ interpolation_end_weight = obs.pending.end_weight
        /\ interpolation_start_weight = obs.pending.start_weight
        /\ interpolation_start_time = obs.pending.start_time
        /\ interpolation_end_time = obs.pending.end_time

(***************************************************************************)
(* SpecThreads: the life of the tick-loop threads.  A client with one      *)
(* layer in the stack and no servo calls start(), stop(), play(),          *)
(* set_animation_mode() and set_live_mode() in any order; every start()    *)
(* makes a thread that runs update() until a pass of it finds stopped set  *)
(* (line 322).  pc holds, for each thread start() can make, whether it is  *)
(* not made yet, running the loop, or over.                                *)
(***************************************************************************)
MaxThreads == 3
LoopThreads == 1..MaxThreads
AnimationModes == {"playlist", "transport", "live"}
RunningLoops == {t \in LoopThreads : pc[t] = "running"}

InitThreads ==
    /\ HInit0 /\ XInit0 /\ LInit0 /\ IInit0 /\ PInit0
    /\ stack = <<"A">>
    /\ weight = [l \in LayerIds |-> IF l = "A" THEN One ELSE Zero]
    /\ anim_lock = NoThread
    /\ pc = [t \in LoopThreads |-> "unborn"]
    /\ local = [t \in LoopThreads |-> <<>>]
    /\ obs = [op |-> "init"]

\* AnimationPlayer.start (lines 326-329): the flag is cleared and a new
\* thread is made and started; the thread made before is not looked at.
player_start ==
    \E t \in LoopThreads :
        /\ pc[t] = "unborn"
        /\ \A u \in LoopThreads : u < t => pc[u] # "unborn"
        /\ stopped' = FALSE
        /\ pc' = [pc EXCEPT ![t] = "running"]
        /\ UNCHANGED <<player_playing, next_frame_time, current_frame>>

\* AnimationPlayer.stop (lines 331-341) with pause (lines 345-347), on a
\* player without servos.
player_stop ==
    /\ player_playing' = FALSE
    /\ next_frame_time' = now
    /\ current_frame' = [l \in LayerIds |-> IF l \in Range(stack) THEN 0 ELSE current_frame[l]]
    /\ stopped' = TRUE
    /\ UNCHANGED pc

\* AnimationPlayer.set_live_mode (lines 96-102).
set_live_mode(active) ==
    /\ IF active THEN player_stop ELSE player_start
    /\ live_ws' = active

ThreadsIdle ==
    UNCHANGED <<wvars, frames, is_playing, looping, transient, post_delay_frames,
                post_delay_count, blending_out, blend_out_frame_duration, ivars,
                last_frame_time, anim_lock, local, hvars, written, playlist,
                playlist_active_idx, framerate>>

ThreadsStart ==
    /\ player_start
    /\ obs' = [op |-> "start"]
    /\ UNCHANGED <<animation_mode, live_ws>>
    /\ ThreadsIdle

ThreadsStop ==
    /\ player_stop
    /\ obs' = [op |-> "stop"]
    /\ UNCHANGED <<animation_mode, live_ws>>
    /\ ThreadsIdle

ThreadsPlay ==
    /\ player_playing' = TRUE
    /\ obs' = [op |-> "play"]
    /\ UNCHANGED <<next_frame_time, current_frame, stopped, pc, animation_mode, live_ws>>
    /\ ThreadsIdle

ThreadsSetLiveMode ==
    \E active \in BOOLEAN :
        /\ set_live_mode(active)
        /\ obs' = [op |-> "set_live_mode"]
        /\ UNCHANGED animation_mode
        /\ ThreadsIdle

\* AnimationPlayer.set_animation_mode (lines 92-94): set_live_mode is
\* called with the mode the player is leaving.
ThreadsSetAnimationMode ==
    \E mode \in AnimationModes :
        /\ set_live_mode(animation_mode = "live")
        /\ animation_mode' = mode
        /\ obs' = [op |-> "set_animation_mode"]
        /\ ThreadsIdle

\* Lines 321-324: a pass of a running loop finds stopped set and the
\* thread ends.
ThreadsLoopExit ==
    \E t \in LoopThreads :
        /\ pc[t] = "running"
        /\ stopped
        /\ pc' = [pc EXCEPT ![t] = "done"]
        /\ obs' = [op |-> "loop_exit"]
        /\ UNCHANGED <<pvars, current_frame, animation_mode, live_ws>>
        /\ ThreadsIdle

NextThreads ==
    \/ ThreadsStart \/ ThreadsStop \/ ThreadsPlay \/ ThreadsSetLiveMode
    \/ ThreadsSetAnimationMode \/ ThreadsLoopExit

SpecThreads == InitThreads /\ [][NextThreads]_vars

\* C34: at most one thread runs the tick loop, whatever calls of start(),
\* stop(), set_animation_mode() and set_live_mode() were made.
C34_SingleTickLoop == Cardinality(RunningLoops) <= 1

(***************************************************************************)
(* SpecRate: the tick thread on a playing player whose frame rate the      *)
(* control surface sets between two passes (anim_webapp.py assigns the     *)
(* request's float to player.framerate).  Layer A was built by the client  *)
(* with the constructor's callbacks and put in with add_layer; it does not *)
(* loop and has a post-delay of the client's choosing; layer B, if there,  *)
(* loops.  Time is relative as in SpecPlaylist.                            *)
(***************************************************************************)
RateStacks == {<<>>, <<"A">>, <<"A", "B">>}
RatePostDelays == 0..MaxPostDelay
FrameRates == {Rat(Framerate, 1), Rat(3 * Framerate, 2), Rat(2 * Framerate, 1)}

InitRate ==
    \E stk \in RateStacks, pd \in RatePostDelays :
        LET made == Range(stk)
            n    == CHOOSE n \in ClipFrames : TRUE
        IN  /\ stack = stk
            /\ weight = [l \in LayerIds |-> IF l = "A" /\ l \in made THEN One ELSE Zero]
            /\ frames = [l \in LayerIds |-> IF l \in made THEN n ELSE 0]
            /\ current_frame = [l \in LayerIds |-> 0]
            /\ is_playing = [l \in LayerIds |-> l \in made]
            /\ looping = [l \in LayerIds |-> l = "B" /\ l \in made]
            /\ transient = [l \in LayerIds |-> FALSE]
            /\ post_delay_frames = [l \in LayerIds |-> IF l = "A" /\ l \in made THEN pd ELSE 0]
            /\ post_delay_count = [l \in LayerIds |-> 0]
            /\ blending_out = [l \in LayerIds |-> FALSE]
            /\ blend_out_frame_duration =
                   [l \in LayerIds |-> IF l \in made THEN BlendOutFrames ELSE 0]
            /\ HInit0
            /\ IInit0
            /\ player_playing = TRUE /\ next_frame_time = 0 /\ last_frame_time = 0
            /\ stopped = FALSE
            /\ anim_lock = NoThread
            /\ pc = [t \in {"tick"} |-> "top"]
            /\ local = [t \in {"tick"} |-> [frame_delta |-> 0, list |-> <<>>, i |-> 0]]
            /\ written = [s \in Servos |-> <<>>]
            /\ playlist = <<>> /\ playlist_active_idx = 0
            /\ MInit0
            /\ obs = [op |-> "init", active |-> FALSE, layer |-> NoLayer,
                      animate_calls |-> 0, req |-> <<>>, completed |-> {},
                      hook |-> <<>>, played |-> NoLayer]

\* player.framerate = float(...) (anim_webapp.py lines 181-182), with a
\* positive rate, between two passes of the loop.
SetFramerate ==
    \E rate \in FrameRates :
        /\ pc["tick"] = "top"
        /\ rate # framerate
        /\ framerate' = rate
        /\ obs' = Observe("set_framerate")
        /\ UNCHANGED <<wvars, lvars, ivars, pvars, tvars, hvars, written, playlist,
                       playlist_active_idx, animation_mode, live_ws>>

NextRate == SetFramerate \/ SlideClock \/ TickThread

SpecRate == InitRate /\ [][NextRate]_vars

\* The tick thread is scheduled fairly and time passes.
SpecRateFair == SpecRate /\ WF_vars(TickThread) /\ WF_vars(SlideClock)

\* C36: while the player plays and the loop keeps ticking, a playing layer
\* that does not loop runs to its end: its update invokes on_complete and
\* stops it (lines 486-493, the only place that stops a layer here).
C36_NonLoopingLayerCompletes ==
    \A l \in LayerIds :
        (l \in Range(stack) /\ is_playing[l] /\ ~looping[l]) ~> ~is_playing[l]

(***************************************************************************)
(* SpecSequencer: the control surface calling set_playlist and             *)
(* reset_playlist, up to MaxPlaylistCalls times and at any moment between  *)
(* two passes of the loop, on a playing player with the layers A and B     *)
(* (made by create_layer, not looping, both transient or both not).  Time  *)
(* is relative as in SpecPlaylist; obs.calls counts the calls.             *)
(***************************************************************************)
MaxPlaylistCalls == 2

InitSequencer ==
    \E tr \in BOOLEAN :
        LET n == CHOOSE n \in ClipFrames : TRUE
        IN  /\ stack = <<"A", "B">>
            /\ weight = [l \in LayerIds |-> IF l = "A" THEN One ELSE Zero]
            /\ frames = [l \in LayerIds |-> IF l \in PlaylistLayers THEN n ELSE 0]
            /\ current_frame = [l \in LayerIds |-> 0]
            /\ is_playing = [l \in LayerIds |-> l \in PlaylistLayers]
            /\ looping = [l \in LayerIds |-> FALSE]
            /\ transient = [l \in LayerIds |-> l \in PlaylistLayers /\ tr]
            /\ post_delay_frames = [l \in LayerIds |-> 0]
            /\ post_delay_count = [l \in LayerIds |-> 0]
            /\ blending_out = [l \in LayerIds |-> FALSE]
            /\ blend_out_frame_duration =
                   [l \in LayerIds |->
                       IF l \in PlaylistLayers THEN InterpolationDuration * Framerate ELSE 0]
            /\ on_complete = [l \in LayerIds |-> "noop"]
            /\ on_start_blend_out =
                   [l \in LayerIds |-> IF l \in PlaylistLayers THEN "animate" ELSE "noop"]
            /\ animation_name = [l \in LayerIds |-> IF l \in PlaylistLayers THEN l ELSE "None"]
            /\ IInit0
            /\ player_playing = TRUE /\ next_frame_time = 0 /\ last_frame_time = 0
            /\ stopped = FALSE
            /\ anim_lock = NoThread
            /\ pc = [t \in {"tick"} |-> "top"]
            /\ local = [t \in {"tick"} |-> [frame_delta |-> 0, list |-> <<>>, i |-> 0]]
            /\ written = <<>>
            /\ playlist = <<>> /\ playlist_active_idx = 0
            /\ MInit0
            /\ obs = [op |-> "init", active |-> FALSE, layer |-> NoLayer,
                      animate_calls |-> 0, req |-> <<>>, completed |-> {},
                      hook |-> <<>>, played |-> NoLayer, calls |-> 0]

SequencerSetPlaylist ==
    \E pl \in PlaylistInputs :
        /\ obs.calls < MaxPlaylistCalls
        /\ pc["tick"] = "top"
        /\ set_playlist(pl)
        /\ obs' = [Observe("set_playlist") EXCEPT !.played = PlayedBy(pl),
                                                   !.calls = @ + 1]

\* AnimationPlayer.reset_playlist (lines 121-123): the player has no
\* playlist any more.
reset_playlist ==
    /\ playlist' = <<>>
    /\ playlist_active_idx' = 0
    /\ UNCHANGED <<wvars, lvars, ivars, pvars, tvars, hvars, written, mvars>>

SequencerResetPlaylist ==
    /\ obs.calls < MaxPlaylistCalls
    /\ pc["tick"] = "top"
    /\ reset_playlist
    /\ obs' = [Observe("reset_playlist") EXCEPT !.calls = @ + 1]

NextSequencer ==
    SequencerSetPlaylist \/ SequencerResetPlaylist \/ SlideClock \/ TickThread

SpecSequencer == InitSequencer /\ [][NextSequencer]_vars

\* C37: with no playlist set (after reset_playlist), a layer that still
\* carries the sequencer as on_complete completes without an exception in
\* the pass and without the sequencer playing any layer.
C37_ResetDetachesSequencer ==
    ( /\ playlist = <<>>
      /\ obs.op = "tick_layer"
      /\ obs.hook # <<>> /\ obs.hook[1] = "increment_playlist" )
    => /\ pc["tick"] # "crashed"
       /\ obs.played = NoLayer

\* The layers of the stack that carry the sequencer as on_complete.
AdvanceHooked == {l \in Range(stack) : on_complete[l] = "increment_playlist"}

\* C38: at most one layer of the stack carries the sequencer as its
\* on_complete, whatever set_playlist and reset_playlist calls were made
\* and however far the playlist has advanced.
C38_SingleAdvanceHook == Cardinality(AdvanceHooked) <= 1

(***************************************************************************)
(* SpecInterp: the tick thread on a playing player whose layers A (not     *)
(* looping, transient) and B (looping) were made by create_layer, right    *)
(* after the control surface called animate_layer_weight on one of them,   *)
(* while it calls remove_layer between two passes of the loop.  Time is    *)
(* relative as in SpecPlaylist.                                            *)
(***************************************************************************)
InterpLayers == {"A", "B"}

InitInterp ==
    \E l \in InterpLayers, w \in PlayerWeightInputs, dur \in DurationInputs :
        LET n  == CHOOSE n \in ClipFrames : TRUE
            wt == [k \in LayerIds |-> IF k = "A" THEN One ELSE Zero]
        IN  /\ stack = <<"A", "B">>
            /\ weight = wt
            /\ frames = [k \in LayerIds |-> IF k \in InterpLayers THEN n ELSE 0]
            /\ current_frame = [k \in LayerIds |-> 0]
            /\ is_playing = [k \in LayerIds |-> k \in InterpLayers]
            /\ looping = [k \in LayerIds |-> k = "B"]
            /\ transient = [k \in LayerIds |-> k = "A"]
            /\ post_delay_frames = [k \in LayerIds |-> 0]
            /\ post_delay_count = [k \in LayerIds |-> 0]
            /\ blending_out = [k \in LayerIds |-> FALSE]
            /\ blend_out_frame_duration =
                   [k \in LayerIds |->
                       IF k = l THEN dur * Framerate
                       ELSE IF k \in InterpLayers THEN InterpolationDuration * Framerate
                       ELSE 0]
            /\ on_complete = [k \in LayerIds |-> "noop"]
            /\ on_start_blend_out =
                   [k \in LayerIds |-> IF k \in InterpLayers THEN "animate" ELSE "noop"]
            /\ animation_name = [k \in LayerIds |-> IF k \in InterpLayers THEN k ELSE "None"]
            /\ interpolating = TRUE
            /\ interpolation_start_time = 0
            /\ interpolation_end_time = Seconds(dur)
            /\ interpolation_start_weight = wt[l]
            /\ interpolation_end_weight = w
            /\ interpolation_layer = l
            /\ now = 0
            /\ player_playing = TRUE /\ next_frame_time = 0 /\ last_frame_time = 0
            /\ stopped = FALSE
            /\ anim_lock = NoThread
            /\ pc = [t \in {"tick"} |-> "top"]
            /\ local = [t \in {"tick"} |-> [frame_delta |-> 0, list |-> <<>>, i |-> 0]]
            /\ written = <<>>
            /\ playlist = <<>> /\ playlist_active_idx = 0
            /\ MInit0
            /\ obs = [op |-> "init", active |-> TRUE, layer |-> l,
                      animate_calls |-> 1, req |-> <<l, w, dur>>, completed |-> {},
                      hook |-> <<>>, played |-> NoLayer]

\* remove_layer (lines 155-158) called by the control surface on a layer of
\* the stack, between two passes of the loop.
InterpRemoveLayer ==
    \E l \in Range(stack) :
        /\ pc["tick"] \in {"top", "sleep"}
        /\ stack' = remove_layer(stack, l)
        /\ obs' = Observe("remove")
        /\ UNCHANGED <<weight, lvars, ivars, pvars, tvars, hvars, xvars>>

NextInterp == InterpRemoveLayer \/ SlideClock \/ TickThread

SpecInterp == InitInterp /\ [][NextInterp]_vars

\* The tick thread is scheduled fairly and time passes.
SpecInterpFair == SpecInterp /\ WF_vars(TickThread) /\ WF_vars(SlideClock)

\* C40: while the loop keeps ticking with a non-empty collection, an active
\* interpolation becomes inactive, also when its target layer is no longer
\* in the collection; the interpolation step of a pass whose target is not
\* in the collection changes no layer's weight and does not end the thread.
C40_InterpolationEnds ==
    /\ interpolating ~> (~interpolating \/ stack = <<>>)
    /\ [][ ( /\ pc["tick"] = "interp"
             /\ interpolating
             /\ interpolation_layer \notin Range(stack) )
           => (weight' = weight /\ pc'["tick"] # "crashed") ]_vars

C40_Witness ==
    /\ obs.op = "tick_interpolate"
    /\ obs.active /\ ~interpolating
    /\ obs.layer \in InterpLayers
    /\ obs.layer \notin Range(stack)
    /\ stack # <<>>

=============================================================================
